---------------------------- MODULE Spec2Model ----------------------------
(***************************************************************************)
(* A model of pdx-orm: the re-entrant transaction scope (Connection) and   *)
(* the table access layer's relationship resolution (AbstractTable).       *)
(***************************************************************************)
EXTENDS Integers, Sequences, FiniteSets, TLC

(***************************************************************************)
(* Bounds of the model.                                                    *)
(***************************************************************************)
\* nesting depth of the with-blocks of running code
MaxNesting == 3
\* backend connections opened in one behaviour
MaxConn == 2
\* rows of a table that references another
MaxRows == 2
\* key values in the database
MaxKey == 2
\* calls made on one QueryBuilder
MaxCalls == 3
\* columns asked of get_values_for_columns
MaxColumns == 3

VARIABLES
    current_connection,  \* _current_connection_var: None or the ambient connection
    transaction_depth,   \* _transaction_depth_var
    scopes,              \* self.conn of every Connection whose with-block is active
    exc,                 \* the exception state of the running code
    opened,              \* number of backend connections opened so far
    log,                 \* per connection: the calls the backend has seen
    pending,             \* per connection: uncommitted writes (depth they were made at)
    committed,           \* per connection: writes made durable by a commit
    discarded,           \* per connection: writes lost with the transaction
    hist,                \* per connection: what its scopes' exits were (history)
    db,                  \* the database: table -> sequence of rows
    call,                \* the table access call in progress, or Idle
    outcome,             \* what the call returned or raised, and its queries
    builder              \* a QueryBuilder under construction and the calls made on it

connVars == <<current_connection, transaction_depth, scopes, exc, opened, log,
              pending, committed, discarded, hist>>

readVars == <<db, call, outcome>>

vars == <<current_connection, transaction_depth, scopes, exc, opened, log,
          pending, committed, discarded, hist, db, call, outcome, builder>>

(***************************************************************************)
(* Connection.py: the re-entrant transaction scope.                        *)
(***************************************************************************)
\* the default of both context variables' "no connection"
None == 0

Conns == 1..MaxConn

Last(s) == s[Len(s)]
Front(s) == SubSeq(s, 1, Len(s) - 1)

\* a plausible slip of line 24: never reusing the ambient connection
HasAmbient_never(existing_conn_token) == FALSE

\* __enter__, line 24: `if existing_conn_token:`
HasAmbient(existing_conn_token) == existing_conn_token # None

\* __exit__, line 42: new_depth = current_depth - 1
NewDepth(current_depth) == current_depth - 1

\* a plausible slip of line 44: finalising on every exit
IsOutermostExit_any(new_depth) == new_depth >= 0

\* __exit__, line 44: `if new_depth == 0:`
IsOutermostExit(new_depth) == new_depth = 0

\* a plausible slip of lines 46-53: committing whatever happened
Finalisation_commitAlways(exc_type) == "commit"

\* __exit__, lines 46-53: rollback when an exception leaves the scope, else commit
Finalisation(exc_type) == IF exc_type THEN "rollback" ELSE "commit"

\* a plausible slip of lines 45-58: the cleanup placed after the try block
CleanupRuns_afterTry(backend_ok) == backend_ok

\* __exit__, lines 45 and 54: the cleanup is the finally block of the try
\* around commit/rollback: it runs whether that call returned or raised
CleanupRuns(backend_ok) == TRUE

\* nothing has been exited yet
NoHistory == [max_depth |-> 0, inner_exc |-> FALSE, outer_exc |-> FALSE,
              backend_ok |-> FALSE, finished |-> FALSE]

\* connection c was closed: the records kept of it are dropped when the next
\* connection is opened
Closed(c) == log[c] # <<>> /\ Last(log[c]) = "close"

\* no table access call is in progress
Idle == [op |-> "idle"]
NoOutcome == [status |-> "none"]

\* a database without tables
NoDatabase == << >>

\* no scope was entered yet
NoTransaction ==
    /\ current_connection = None
    /\ transaction_depth = 0
    /\ scopes = <<>>
    /\ exc = "none"
    /\ opened = 0
    /\ log = [c \in Conns |-> <<>>]
    /\ pending = [c \in Conns |-> {}]
    /\ committed = [c \in Conns |-> {}]
    /\ discarded = [c \in Conns |-> {}]
    /\ hist = [c \in Conns |-> NoHistory]

ConnInit ==
    /\ NoTransaction
    /\ db = NoDatabase
    /\ call = Idle
    /\ outcome = NoOutcome
    /\ builder = [calls |-> <<>>]

\* `with Connection() as conn:` reached by running code: Connection.__enter__
Enter ==
    /\ exc = "none"
    /\ Len(scopes) < MaxNesting
    /\ IF HasAmbient(current_connection)
       THEN /\ scopes' = Append(scopes, current_connection)
            /\ transaction_depth' = transaction_depth + 1
            /\ UNCHANGED <<current_connection, opened>>
            /\ UNCHANGED <<log, pending, committed, discarded, hist>>
       ELSE /\ opened < MaxConn
            /\ opened' = opened + 1
            /\ scopes' = Append(scopes, opened + 1)
            /\ current_connection' = opened + 1
            /\ transaction_depth' = 1
            /\ log' = [c \in Conns |-> IF Closed(c) THEN <<>> ELSE log[c]]
            /\ pending' = [c \in Conns |-> IF Closed(c) THEN {} ELSE pending[c]]
            /\ committed' = [c \in Conns |-> IF Closed(c) THEN {} ELSE committed[c]]
            /\ discarded' = [c \in Conns |-> IF Closed(c) THEN {} ELSE discarded[c]]
            /\ hist' = [c \in Conns |-> IF Closed(c) THEN NoHistory ELSE hist[c]]
    /\ UNCHANGED exc
    /\ UNCHANGED readVars
    /\ UNCHANGED builder

\* conn.execute(...) in the body of the innermost scope succeeds
Execute ==
    /\ exc = "none"
    /\ scopes # <<>>
    /\ pending' = [pending EXCEPT ![Last(scopes)] = @ \cup {Len(scopes)}]
    /\ UNCHANGED <<current_connection, transaction_depth, scopes, exc, opened,
                   log, committed, discarded, hist>>
    /\ UNCHANGED readVars
    /\ UNCHANGED builder

\* the body of the innermost scope raises (a backend error of conn.execute,
\* or any other exception)
Raise ==
    /\ exc = "none"
    /\ scopes # <<>>
    /\ exc' = "raised"
    /\ UNCHANGED <<current_connection, transaction_depth, scopes, opened, log,
                   pending, committed, discarded, hist>>
    /\ UNCHANGED readVars
    /\ UNCHANGED builder

\* the body of an enclosing scope catches an exception that left an inner scope
Catch ==
    /\ exc = "propagating"
    /\ scopes # <<>>
    /\ exc' = "none"
    /\ UNCHANGED <<current_connection, transaction_depth, scopes, opened, log,
                   pending, committed, discarded, hist>>
    /\ UNCHANGED readVars
    /\ UNCHANGED builder

\* the with-block of the innermost scope is left: Connection.__exit__;
\* backend_ok is whether the backend's commit/rollback returns or raises
Exit(backend_ok) ==
    /\ scopes # <<>>
    /\ LET self == Last(scopes)
           exc_type == exc # "none"
           current_depth == transaction_depth
           new_depth == NewDepth(current_depth)
           final == current_depth > 0 /\ IsOutermostExit(new_depth)
       IN  /\ scopes' = Front(scopes)
           /\ hist' = [hist EXCEPT ![self] =
                 [max_depth |-> IF Len(scopes) > @.max_depth THEN Len(scopes)
                                ELSE @.max_depth,
                  inner_exc |-> @.inner_exc \/ (exc_type /\ Len(scopes) > 1),
                  outer_exc |-> @.outer_exc \/ (exc_type /\ Len(scopes) = 1),
                  backend_ok |-> @.backend_ok \/ (final /\ backend_ok),
                  finished |-> @.finished \/ Len(scopes) = 1]]
           /\ IF current_depth <= 0
              THEN UNCHANGED <<current_connection, transaction_depth, log,
                               pending, committed, discarded>>
              ELSE IF final
              THEN /\ log' = [log EXCEPT ![self] =
                                 @ \o <<Finalisation(exc_type)>>
                                   \o (IF CleanupRuns(backend_ok) THEN <<"close">>
                                                                  ELSE <<>>)]
                   /\ committed' = [committed EXCEPT ![self] =
                                 IF Finalisation(exc_type) = "commit" /\ backend_ok
                                 THEN @ \cup pending[self] ELSE @]
                   /\ discarded' = [discarded EXCEPT ![self] =
                                 IF Finalisation(exc_type) = "commit" /\ backend_ok
                                 THEN @ ELSE @ \cup pending[self]]
                   /\ pending' = [pending EXCEPT ![self] = {}]
                   /\ current_connection' = IF CleanupRuns(backend_ok) THEN None
                                             ELSE current_connection
                   /\ transaction_depth' = IF CleanupRuns(backend_ok) THEN 0
                                             ELSE new_depth
              ELSE /\ transaction_depth' = new_depth
                   /\ UNCHANGED <<current_connection, log, pending, committed,
                                   discarded>>
           /\ exc' = IF Len(scopes) = 1 THEN "none"
                     ELSE IF exc_type \/ (final /\ ~backend_ok) THEN "propagating"
                     ELSE "none"
    /\ UNCHANGED opened
    /\ UNCHANGED readVars
    /\ UNCHANGED builder

ExitStep == \E backend_ok \in BOOLEAN : Exit(backend_ok)

NextConn ==
    \/ Enter
    \/ Execute
    \/ Raise
    \/ Catch
    \/ ExitStep

SpecConn == ConnInit /\ [][NextConn]_vars

(***************************************************************************)
(* Values of the entity model (BaseData.py).  A raw database value is Null *)
(* or an integer; a field of an entity is a raw value, a LazyField, a      *)
(* nested entity or a list of entities.                                    *)
(***************************************************************************)
\* Python's None as a field or column value
Null == [kind |-> "null"]

\* a scalar read from or bound to a column
IntV(n) == [kind |-> "int", val |-> n]

\* LazyField.__init__
LazyField(db_value, reference) ==
    [kind |-> "lazy", db_value |-> db_value, reference |-> reference]

\* an instance of the entity class cls with its attribute dictionary
Entity(cls, attrs) == [kind |-> "entity", cls |-> cls, attrs |-> attrs]

\* a Python list of values
ListOf(items) == [kind |-> "list", items |-> items]

\* seq \o seq \o ... of a sequence of sequences
RECURSIVE Concat(_)
Concat(ss) == IF ss = <<>> THEN <<>> ELSE ss[1] \o Concat(Tail(ss))

Range(s) == {s[i] : i \in DOMAIN s}

(***************************************************************************)
(* DBColumn.py and the entity classes the model runs on.                   *)
(***************************************************************************)
\* DBColumn(reference=None), DBColumn(referenced_column=None)
NoRef == "None"

\* DBColumn.__init__
DBColumn(field_name, db_field_name, reference, primary_key, referenced_column) ==
    [field_name |-> field_name, db_field_name |-> db_field_name,
     nullable |-> TRUE, reference |-> reference, primary_key |-> primary_key,
     default_value |-> Null, auto_generated |-> FALSE,
     referenced_column |-> referenced_column]

\* a class attribute holding one DBColumn
Attr(key, col) == [key |-> key, list |-> FALSE, cols |-> <<col>>]

\* a class attribute holding a list of DBColumn (composite foreign key)
AttrList(key, cols) == [key |-> key, list |-> TRUE, cols |-> cols]

\* The class bodies: each entity class is the table class's dataclass and is
\* named like it.  Customer/Order: single-column foreign key; Item/Line:
\* composite key and composite foreign key; Emp/Dept: a reference cycle;
\* Shop/Ticket: a primary key whose column name differs from its attribute;
\* Parent/Child: a one-to-many relation; Tag/Note: an auto-generated key,
\* whose column is named like the attribute (Tag) or differently (Note);
\* Profile/Detail: a primary key that is a foreign key, of one column
\* (Profile) or composite (Detail).
Classes == {"Customer", "Order", "Item", "Line", "Emp", "Dept", "Shop",
            "Ticket", "Parent", "Child", "Tag", "Note", "Profile", "Detail"}

ClassBody(cls) ==
    CASE cls = "Customer" ->
           <<Attr("id", DBColumn("id", "id", NoRef, TRUE, NoRef)),
             Attr("name", DBColumn("name", "name", NoRef, FALSE, NoRef))>>
      [] cls = "Order" ->
           <<Attr("id", DBColumn("id", "id", NoRef, TRUE, NoRef)),
             Attr("customer", DBColumn("customer", "customer", "Customer", FALSE, NoRef))>>
      [] cls = "Item" ->
           <<Attr("a", DBColumn("a", "a", NoRef, TRUE, NoRef)),
             Attr("b", DBColumn("b", "b", NoRef, TRUE, NoRef))>>
      [] cls = "Line" ->
           <<Attr("id", DBColumn("id", "id", NoRef, TRUE, NoRef)),
             AttrList("item", <<DBColumn("item", "item_a", "Item", FALSE, NoRef),
                                DBColumn("item", "item_b", "Item", FALSE, NoRef)>>)>>
      [] cls = "Emp" ->
           <<Attr("id", DBColumn("id", "id", NoRef, TRUE, NoRef)),
             Attr("dept", DBColumn("dept", "dept", "Dept", FALSE, NoRef))>>
      [] cls = "Dept" ->
           <<Attr("id", DBColumn("id", "id", NoRef, TRUE, NoRef)),
             Attr("head", DBColumn("head", "head", "Emp", FALSE, NoRef))>>
      [] cls = "Shop" ->
           <<Attr("id", DBColumn("id", "shop_id", NoRef, TRUE, NoRef))>>
      [] cls = "Ticket" ->
           <<Attr("id", DBColumn("id", "id", NoRef, TRUE, NoRef)),
             Attr("shop", DBColumn("shop", "shop", "Shop", FALSE, NoRef))>>
      [] cls = "Parent" ->
           <<Attr("id", DBColumn("id", "id", NoRef, TRUE, NoRef)),
             Attr("children", DBColumn("children", "children", "Child", FALSE, "parent_id"))>>
      [] cls = "Child" ->
           <<Attr("id", DBColumn("id", "id", NoRef, TRUE, NoRef)),
             Attr("parent_id", DBColumn("parent_id", "parent_id", NoRef, FALSE, NoRef))>>
      [] cls = "Tag" ->
           <<Attr("id", [DBColumn("id", "id", NoRef, TRUE, NoRef)
                           EXCEPT !.auto_generated = TRUE]),
             Attr("label", DBColumn("label", "label", NoRef, FALSE, NoRef))>>
      [] cls = "Note" ->
           <<Attr("id", [DBColumn("id", "note_id", NoRef, TRUE, NoRef)
                           EXCEPT !.auto_generated = TRUE]),
             Attr("text", DBColumn("text", "text", NoRef, FALSE, NoRef))>>
      [] cls = "Profile" ->
           <<Attr("customer", DBColumn("customer", "customer_id", "Customer", TRUE, NoRef)),
             Attr("bio", DBColumn("bio", "bio", NoRef, FALSE, NoRef))>>
      [] cls = "Detail" ->
           <<AttrList("item", <<DBColumn("item", "item_a", "Item", TRUE, NoRef),
                                DBColumn("item", "item_b", "Item", TRUE, NoRef)>>),
             Attr("qty", DBColumn("qty", "qty", NoRef, FALSE, NoRef))>>

(***************************************************************************)
(* ModelMeta.py: the metadata derived from a class body.                   *)
(***************************************************************************)
\* a descriptor of a one-to-many relation: it names the child table's column
IsOneToMany(col) == col.referenced_column # NoRef

\* meta.fields: attribute -> DBColumn | list[DBColumn], in declaration order
Fields(cls) == ClassBody(cls)

FieldKeys(cls) == [i \in DOMAIN Fields(cls) |-> Fields(cls)[i].key]

\* fields[key]
FieldOf(cls, key) ==
    LET i == CHOOSE i \in DOMAIN Fields(cls) : Fields(cls)[i].key = key
    IN  Fields(cls)[i]

\* every descriptor of the class body, in declaration order
AllColumns(cls) == Concat([i \in DOMAIN Fields(cls) |-> Fields(cls)[i].cols])

\* meta.db_columns: db column name -> DBColumn (a later descriptor of the
\* same column name replaces an earlier one)
DbColumnNames(cls) == {c.db_field_name : c \in Range(AllColumns(cls))}

DbColumn(cls, name) ==
    LET cs == AllColumns(cls)
        i == CHOOSE i \in DOMAIN cs :
                /\ cs[i].db_field_name = name
                /\ \A j \in DOMAIN cs : cs[j].db_field_name = name => j <= i
    IN  cs[i]

\* a plausible slip of lines 48-51: the descriptors of a list are not looked at
PrimaryKeys_single(cls) ==
    LET single == SelectSeq(Fields(cls), LAMBDA f : ~f.list /\ f.cols[1].primary_key)
    IN  [i \in DOMAIN single |-> single[i].cols[1]]

\* meta.primary_keys
PrimaryKeys(cls) == SelectSeq(AllColumns(cls), LAMBDA c : c.primary_key)

\* meta.foreign_keys: attribute -> list[DBColumn], in declaration order
ForeignKeys(cls) ==
    SelectSeq(Fields(cls), LAMBDA f : f.list \/ f.cols[1].reference # NoRef)

\* meta.auto_generated_fields: the field_name of every auto-generated DBColumn
AutoGeneratedFields(cls) ==
    LET single == SelectSeq(Fields(cls),
                            LAMBDA f : ~f.list /\ f.cols[1].auto_generated)
    IN  [i \in DOMAIN single |-> single[i].cols[1].field_name]

\* meta.one_to_many_fields: attribute -> DBColumn
OneToManyFields(cls) ==
    SelectSeq(Fields(cls), LAMBDA f : ~f.list /\ IsOneToMany(f.cols[1]))

(***************************************************************************)
(* AbstractSchema.py: the naming facts of the table of each class, as the  *)
(* table's schema class states them.                                       *)
(***************************************************************************)
\* schema.primaryKey
SchemaPrimaryKey(cls) ==
    [i \in DOMAIN PrimaryKeys(cls) |-> PrimaryKeys(cls)[i].db_field_name]

\* schema.columns
SchemaColumns(cls) ==
    [i \in DOMAIN AllColumns(cls) |-> AllColumns(cls)[i].db_field_name]

\* schema.without_alias(): the schemas of the model carry no alias
without_alias(cls) == cls

(***************************************************************************)
(* QueryBuilder.py.  A fragment is the sequence of the words of its text;  *)
(* a word is a record naming what it is: SELECT *, FROM <table>, WHERE,    *)
(* AND, <column> = ?, (<columns>), an IN list of placeholders, a column.   *)
(***************************************************************************)
WSelect == [w |-> "SELECT *"]
WFrom(table) == [w |-> "FROM", table |-> table]
WWhere == [w |-> "WHERE"]
WAnd == [w |-> "AND"]
\* "<alias><col> = ?"
WEq(alias, col) == [w |-> "= ?", alias |-> alias, col |-> col]
\* "(<col>, <col>, ...)"
WCols(cols) == [w |-> "( )", cols |-> cols]
\* "<col>"
WCol(col) == [w |-> "column", col |-> col]
\* "IN (?, ?)" has groups = FALSE and one shape entry of 1 per value;
\* "IN ((?, ?), (?, ?))" has groups = TRUE and one shape entry per tuple
WIn(groups, shape) == [w |-> "IN", groups |-> groups, shape |-> shape]

\* "INSERT INTO <table> (<col>, ...) "
WInsert(table, cols) == [w |-> "INSERT INTO", table |-> table, cols |-> cols]
\* "VALUES (?, ...)" with n placeholders
WValues(n) == [w |-> "VALUES", n |-> n]
\* "UPDATE <table>"
WUpdate(table) == [w |-> "UPDATE", table |-> table]
\* "SET <col> = ?, ..."
WSet(cols) == [w |-> "SET", cols |-> cols]
\* "DELETE FROM <table>"
WDelete(table) == [w |-> "DELETE FROM", table |-> table]
\* "NOT (<col>, ...)"
WNot(cols) == [w |-> "NOT", cols |-> cols]

\* a tuple (or list) passed as one value
TupleOf(items) == [kind |-> "tuple", items |-> items]

\* `"WHERE" in query`, `"FROM" in query`
HasWord(fragment, word) == \E i \in DOMAIN fragment : fragment[i].w = word

RECURSIVE Sum(_)
Sum(ns) == IF ns = <<>> THEN 0 ELSE ns[1] + Sum(Tail(ns))

\* the number of `?` of a word
WordPlaceholders(word) ==
    IF word.w = "= ?" THEN 1
    ELSE IF word.w = "IN" THEN Sum(word.shape)
    ELSE IF word.w = "VALUES" THEN word.n
    ELSE IF word.w = "SET" THEN Len(word.cols)
    ELSE 0

\* QueryBuilder.__init__; error is the exception a call of the chain raised
QueryBuilder ==
    [query |-> <<>>, params |-> <<>>, has_from |-> FALSE, has_where |-> FALSE,
     error |-> "ok"]

\* QueryBuilder.append, lines 19-22: None binds nothing, a list or tuple
\* binds its items, any other value binds itself
ParamList(params) ==
    IF params = Null THEN <<>>
    ELSE IF params.kind \in {"tuple", "list"} THEN params.items
    ELSE <<params>>

\* QueryBuilder.append with a string: params is the list bound to it
append(qb, fragment, params) ==
    IF qb.error # "ok" THEN qb
    ELSE [qb EXCEPT !.query = Append(@, fragment),
                    !.params = @ \o params,
                    !.has_from = @ \/ HasWord(fragment, "FROM"),
                    !.has_where = @ \/ HasWord(fragment, "WHERE")]

\* a merge that forgets the parameters of the merged builder
append_self_fragments_only(qb, other) ==
    [qb EXCEPT !.query = @ \o other.query]

\* QueryBuilder._append_self, and append with a QueryBuilder
append_self(qb, other) ==
    IF qb.error # "ok" THEN qb
    ELSE IF other.error # "ok" THEN [qb EXCEPT !.error = other.error]
    ELSE [qb EXCEPT !.query = @ \o other.query,
                    !.params = @ \o other.params]

\* QueryBuilder.append, lines 16-33: a builder is merged (the params argument
\* is not looked at), a string (a record of kind "str" holding the fragment)
\* is appended with its parameters
QueryBuilderAppend(qb, query, params) ==
    IF "kind" \notin DOMAIN query THEN append_self(qb, query)
    ELSE append(qb, query.fragment, ParamList(params))

\* a flattening by component instead of by tuple
Flattern_by_component(lst) ==
    Concat([j \in 1..Len(lst[1].items) |-> [i \in DOMAIN lst |-> lst[i].items[j]]])

\* QueryBuilder._flattern
Flattern(lst) == Concat([i \in DOMAIN lst |-> lst[i].items])

\* an appendIn that checks neither the WHERE flag nor the values
appendIn_unchecked(qb, values) ==
    append(qb, <<WIn(FALSE, [i \in DOMAIN values |-> 1])>>, values)

\* QueryBuilder.appendIn
appendIn(qb, values) ==
    IF qb.error # "ok" THEN qb
    ELSE IF ~qb.has_where THEN [qb EXCEPT !.error = "ValueError"]
    ELSE IF values = <<>> THEN [qb EXCEPT !.error = "ValueError"]
    ELSE IF values[1].kind = "tuple"
         THEN append(qb, <<WIn(TRUE, [i \in DOMAIN values |-> Len(values[i].items)])>>,
                     Flattern(values))
         ELSE append(qb, <<WIn(FALSE, [i \in DOMAIN values |-> 1])>>, values)

\* QueryBuilder.query: the fragments joined
QueryText(qb) == Concat(qb.query)

(***************************************************************************)
(* QueryGenerator.py                                                       *)
(***************************************************************************)
RECURSIVE JoinAnd(_)
JoinAnd(words) ==
    IF Len(words) <= 1 THEN words
    ELSE <<words[1], WAnd>> \o JoinAnd(Tail(words))

\* a WHERE clause that never writes the alias
generate_where_no_alias(schema, pk) ==
    append(QueryBuilder,
           <<WWhere>> \o JoinAnd([i \in DOMAIN schema.primaryKey |->
                                     WEq("", schema.primaryKey[i])]),
           pk)

\* generate_where_with_pk: schema.alias is the alias of the schema ("" when
\* it has none) and schema.primaryKey its key columns; WEq(alias, col) is the
\* text "<alias>.<col> = ?", or "<col> = ?" when the alias is ""
generate_where_with_pk(schema, pk) ==
    append(QueryBuilder,
           <<WWhere>> \o JoinAnd([i \in DOMAIN schema.primaryKey |->
                                     WEq(IF schema.alias # "" THEN schema.alias ELSE "",
                                         schema.primaryKey[i])]),
           pk)

\* generate_query_with_pk (the table schemas of the model have no alias)
generate_query_with_pk(cls, key) ==
    append_self(append(QueryBuilder, <<WSelect, WFrom(cls)>>, <<>>),
               generate_where_with_pk([alias |-> "",
                                       primaryKey |-> SchemaPrimaryKey(cls)], key))

(***************************************************************************)
(* The database behind the read connection (connections/SqliteConnection). *)
(* A table is a sequence of rows; a row maps column names to IntV or Null. *)
(***************************************************************************)
BadConditions == [ok |-> FALSE, conds |-> <<>>]

\* the parameters bound to an IN list, group by group
RECURSIVE Groups(_, _)
Groups(shape, params) ==
    IF shape = <<>> THEN <<>>
    ELSE <<SubSeq(params, 1, shape[1])>>
         \o Groups(Tail(shape), SubSeq(params, shape[1] + 1, Len(params)))

\* the conditions of a WHERE clause: each is a list of columns and the set
\* of value tuples it accepts; ok is FALSE when the text is no valid clause
\* or the number of bindings differs from the number of placeholders
RECURSIVE Conditions(_, _)
RECURSIVE MoreConditions(_, _, _)
Conditions(words, params) ==
    IF words = <<>> THEN BadConditions
    ELSE IF words[1].w = "= ?"
    THEN IF params = <<>> THEN BadConditions
         ELSE MoreConditions([cols |-> <<words[1].col>>, keys |-> {<<params[1]>>}],
                             Tail(words), Tail(params))
    ELSE IF words[1].w \in {"( )", "column"} /\ Len(words) >= 2 /\ words[2].w = "IN"
    THEN LET cols == IF words[1].w = "( )" THEN words[1].cols ELSE <<words[1].col>>
             shape == words[2].shape
             n == Sum(shape)
         IN  IF \/ n > Len(params)
                \/ shape = <<>>
                \/ \E i \in DOMAIN shape : shape[i] # Len(cols)
             THEN BadConditions
             ELSE MoreConditions([cols |-> cols,
                                  keys |-> Range(Groups(shape, SubSeq(params, 1, n)))],
                                 SubSeq(words, 3, Len(words)),
                                 SubSeq(params, n + 1, Len(params)))
    ELSE BadConditions

MoreConditions(cond, words, params) ==
    IF words = <<>> THEN [ok |-> params = <<>>, conds |-> <<cond>>]
    ELSE IF words[1].w = "AND"
    THEN LET rest == Conditions(Tail(words), params)
         IN  [ok |-> rest.ok, conds |-> <<cond>> \o rest.conds]
    ELSE BadConditions

\* a comparison with NULL is never true
RowMatches(row, cond) ==
    LET v == [i \in DOMAIN cond.cols |-> row[cond.cols[i]]]
    IN  v \in cond.keys /\ \A i \in DOMAIN v : v[i] # Null

\* SqliteConnection.execute of a SELECT and DBResult.to_dict
ExecuteSelect(database, qb) ==
    LET words == QueryText(qb)
        failed == [status |-> "DatabaseError", rows |-> <<>>]
    IN  IF qb.error # "ok" THEN [status |-> qb.error, rows |-> <<>>]
        ELSE IF Len(words) < 2 \/ words[1] # WSelect \/ words[2].w # "FROM" THEN failed
        ELSE IF words[2].table \notin DOMAIN database THEN failed
        ELSE IF Len(words) = 2
        THEN IF qb.params # <<>> THEN failed
             ELSE [status |-> "ok", rows |-> database[words[2].table]]
        ELSE IF words[3] # WWhere THEN failed
        ELSE LET parsed == Conditions(SubSeq(words, 4, Len(words)), qb.params)
                 table == words[2].table
                 Match(row) == \A i \in DOMAIN parsed.conds :
                                   RowMatches(row, parsed.conds[i])
             IN  IF ~parsed.ok THEN failed
                 ELSE IF \E i \in DOMAIN parsed.conds :
                            \E j \in DOMAIN parsed.conds[i].cols :
                               parsed.conds[i].cols[j] \notin Range(SchemaColumns(table))
                 THEN failed
                 ELSE [status |-> "ok", rows |-> SelectSeq(database[table], Match)]

(***************************************************************************)
(* BaseData.py                                                             *)
(***************************************************************************)
\* BaseData._is_type_or_list_type(value, BaseData)
IsBaseDataOrList(value) ==
    IF value.kind = "list"
    THEN \A i \in DOMAIN value.items : value.items[i].kind = "entity"
    ELSE value.kind = "entity"

\* BaseData._is_type_or_list_type(value, reference.dataclass)
IsTypeOrListType(value, cls) ==
    IF value.kind = "list"
    THEN \A i \in DOMAIN value.items :
            value.items[i].kind = "entity" /\ value.items[i].cls = cls
    ELSE value.kind = "entity" /\ value.cls = cls

\* BaseData.__init__: kwargs maps some attribute names to values; a dict, and
\* every dict of a list, is turned into an instance of the referenced class
RECURSIVE BaseDataInit(_, _)
BaseDataInit(cls, kwargs) ==
    Entity(cls,
           [key \in Range(FieldKeys(cls)) |->
               CHOOSE wrapped \in
                  {IF /\ value # Null
                      /\ value.kind # "lazy"
                      /\ FieldOf(cls, key).cols[1].reference # NoRef
                      /\ ~IsBaseDataOrList(value)
                   THEN LazyField(value, FieldOf(cls, key).cols[1].reference)
                   ELSE value :
                     value \in
                        {IF given = Null THEN given
                         ELSE IF given.kind = "dict"
                         THEN BaseDataInit(FieldOf(cls, key).cols[1].reference, given.attrs)
                         ELSE IF given.kind = "list"
                         THEN ListOf([i \in DOMAIN given.items |->
                                 IF given.items[i].kind = "dict"
                                 THEN BaseDataInit(FieldOf(cls, key).cols[1].reference,
                                                   given.items[i].attrs)
                                 ELSE given.items[i]])
                         ELSE given :
                           given \in {IF key \in DOMAIN kwargs THEN kwargs[key]
                                      ELSE FieldOf(cls, key).cols[1].default_value}}} :
                  TRUE])

\* BaseData.from_db_dict
from_db_dict(cls, db_dict) ==
    BaseDataInit(cls,
        [key \in Range(FieldKeys(cls)) |->
            LET first == FieldOf(cls, key).cols[1]
                value == IF first.db_field_name \in DOMAIN db_dict
                         THEN db_dict[first.db_field_name] ELSE Null
            IN  IF /\ first.reference # NoRef
                   /\ value # Null
                   /\ ~IsTypeOrListType(value, first.reference)
                THEN LazyField(value, first.reference)
                ELSE value])

\* BaseData.get_db_value and BaseData.pk
RECURSIVE get_db_value(_, _)
RECURSIVE pk(_)
get_db_value(entity, attribute) ==
    LET value == entity.attrs[attribute]
    IN  IF value = Null
        THEN [i \in DOMAIN FieldOf(entity.cls, attribute).cols |-> Null]
        ELSE IF value.kind = "lazy" THEN <<value.db_value>>
        ELSE IF value.kind = "entity" THEN pk(value)
        ELSE IF value.kind = "list"
        THEN [i \in DOMAIN value.items |->
                 IF value.items[i].kind = "entity"
                 THEN TupleOf(pk(value.items[i])) ELSE value.items[i]]
        ELSE <<value>>

pk(entity) ==
    Concat([i \in DOMAIN PrimaryKeys(entity.cls) |->
               get_db_value(entity, PrimaryKeys(entity.cls)[i].field_name)])

\* BaseData.__getattribute__: the value, or the error raised
GetAttr(entity, name) ==
    IF name \notin DOMAIN entity.attrs
    THEN [status |-> "AttributeError", value |-> Null]
    ELSE IF entity.attrs[name] # Null /\ entity.attrs[name].kind = "lazy"
    THEN [status |-> "AttributeError", value |-> Null]
    ELSE [status |-> "ok", value |-> entity.attrs[name]]

\* BaseData.__eq__
BaseDataEq(self, other) ==
    IF ~(other.kind = "entity" /\ other.cls = self.cls) THEN FALSE
    ELSE IF pk(self) # pk(other) THEN FALSE
    ELSE \A field_name \in Range(FieldKeys(self.cls)) :
            get_db_value(self, field_name) = get_db_value(other, field_name)

\* BaseData.as_dict with _dict_or_elem: the dict, or the AttributeError that
\* reading a Lazy Reference raises
RECURSIVE as_dict(_)
as_dict(entity) ==
    CHOOSE result \in
       {IF \E k \in DOMAIN elems : GetAttr(entity, k).status # "ok" \/ elems[k].status # "ok"
        THEN [status |-> "AttributeError", value |-> Null]
        ELSE [status |-> "ok",
              value |-> [kind |-> "dict", attrs |-> [k \in DOMAIN elems |-> elems[k].value]]] :
          elems \in
             {[k \in Range(FieldKeys(entity.cls)) |->
                 IF entity.attrs[k] = Null THEN [status |-> "ok", value |-> Null]
                 ELSE IF entity.attrs[k].kind = "entity" THEN as_dict(entity.attrs[k])
                 ELSE IF entity.attrs[k].kind = "list"
                 THEN CHOOSE listed \in
                        {IF \E i \in DOMAIN items : items[i].status # "ok"
                         THEN [status |-> "AttributeError", value |-> Null]
                         ELSE [status |-> "ok",
                               value |-> ListOf([i \in DOMAIN items |-> items[i].value])] :
                           items \in
                              {[i \in DOMAIN entity.attrs[k].items |->
                                  IF entity.attrs[k].items[i].kind = "entity"
                                  THEN as_dict(entity.attrs[k].items[i])
                                  ELSE [status |-> "ok",
                                        value |-> entity.attrs[k].items[i]]]}} : TRUE
                 ELSE [status |-> "ok", value |-> entity.attrs[k]]]}} :
       TRUE

\* a plausible slip of line 201: no attribute is ever taken as seen
AlreadySeen_never(attr_name, already_seen) == FALSE

\* get_values_for_columns, line 201: `if attr_name in already_seen:`
AlreadySeen(attr_name, already_seen) == attr_name \in already_seen

\* BaseData.get_values_for_columns: the values, or the error raised
RECURSIVE get_values_for_columns(_, _, _)
get_values_for_columns(entity, columns, already_seen) ==
    IF columns = <<>> THEN [status |-> "ok", values |-> <<>>]
    ELSE IF columns[1] \notin DbColumnNames(entity.cls)
    THEN [status |-> "ValueError", values |-> <<>>]
    ELSE LET attr_name == DbColumn(entity.cls, columns[1]).field_name
             rest == get_values_for_columns(entity, Tail(columns), already_seen \cup {attr_name})
         IN  IF AlreadySeen(attr_name, already_seen)
             THEN get_values_for_columns(entity, Tail(columns), already_seen)
             ELSE IF attr_name \notin Range(FieldKeys(entity.cls))
             THEN [status |-> "ValueError", values |-> <<>>]
             ELSE IF rest.status # "ok" THEN rest
             ELSE [status |-> "ok",
                   values |-> get_db_value(entity, attr_name) \o rest.values]


(***************************************************************************)
(* AbstractTable.py: reading.  Every operator returns what the call        *)
(* returned or raised together with the queries executed so far; `stack`   *)
(* holds the calls in progress.  A call entered again with the arguments   *)
(* of a call in progress repeats it without end: the interpreter stops it  *)
(* with RecursionError.                                                    *)
(***************************************************************************)
Returned(value, queries) == [status |-> "ok", value |-> value, log |-> queries]
Raised(status, queries) == [status |-> status, value |-> Null, log |-> queries]

Frame(op, cls, qb, fetch_type) ==
    [op |-> op, cls |-> cls, query |-> qb.query, params |-> qb.params,
     fetch_type |-> fetch_type]

\* the query as the backend sees it, and how deep in the resolution it ran
Executed(queries, cls, qb, stack) ==
    Append(queries, [table |-> cls, query |-> QueryText(qb), params |-> qb.params,
                     depth |-> Len(stack)])

\* the backend binds integers and NULL only
Bindable(params) == \A i \in DOMAIN params : params[i].kind \in {"int", "null"}

\* AbstractTable.execute_select_query(query).to_dict
execute_select_query(qb) ==
    IF qb.error = "ok" /\ ~Bindable(qb.params)
    THEN [status |-> "DatabaseError", rows |-> <<>>]
    ELSE ExecuteSelect(db, qb)

\* BaseData defines __eq__ and no __hash__; a list is not hashable either
Hashable(value) == value.kind \in {"int", "null"}

\* list(a set): the order is the interpreter's
RECURSIVE SetToSeq(_)
SetToSeq(S) ==
    IF S = {} THEN <<>>
    ELSE LET x == CHOOSE x \in S : TRUE IN <<x>> \o SetToSeq(S \ {x})

\* {keys[i]: items[i] for i}: a later item replaces an earlier one
MapOf(keys, items) ==
    [k \in Range(keys) |->
        items[CHOOSE i \in DOMAIN keys :
                 keys[i] = k /\ \A j \in DOMAIN keys : keys[j] = k => j <= i]]

\* the items whose key is k, in order
GroupOf(keys, items, k) ==
    LET idx == SelectSeq([i \in DOMAIN items |-> i], LAMBDA i : keys[i] = k)
    IN  [j \in DOMAIN idx |-> items[idx[j]]]

\* AbstractTable._get_fk_as_tuple
get_fk_as_tuple(result, fk) == [i \in DOMAIN fk |-> result[fk[i].db_field_name]]

\* AbstractTable._update_result_dict
update_result_dict(result, column, result_map, default) ==
    [r \in DOMAIN result |->
        [result[r] EXCEPT ![column] =
            IF @ \in DOMAIN result_map THEN result_map[@] ELSE default]]

\* AbstractTable._set_values
set_values(db_dict, columns, data) ==
    [c \in DOMAIN db_dict |->
        IF \E j \in DOMAIN columns : columns[j].db_field_name = c
        THEN data ELSE db_dict[c]]

\* `if not isinstance(key, list) and not isinstance(key, tuple): key = [key]`
NormalizeKey(key) == IF key.kind = "tuple" THEN key.items ELSE <<key>>

RECURSIVE get_data_with_query(_, _, _, _, _)
RECURSIVE ParseForeignKeys(_, _, _, _, _)
RECURSIVE NextForeignKey(_, _, _, _)
RECURSIVE ParseOneToMany(_, _, _, _, _)
RECURSIVE NextOneToMany(_, _, _, _)
RECURSIVE get_one(_, _, _, _, _, _)
RECURSIVE OneForeignKeys(_, _, _, _, _)
RECURSIVE NextOneForeignKey(_, _, _, _, _)
RECURSIVE OneOneToMany(_, _, _, _, _)
RECURSIVE NextOneOneToMany(_, _, _, _, _)

\* _parse_db_result_to_dataclass, lines 222-239: the rows after the entities
\* the batched query returned (sub) are put in the place of their keys
SubstituteForeignKey(result, values, primaryKey, sub) ==
    LET foreign_key_result == sub.value.items
        pks == [k \in DOMAIN foreign_key_result |-> pk(foreign_key_result[k])]
        lookup_map == MapOf(pks, foreign_key_result)
        got == [k \in DOMAIN foreign_key_result |->
                   GetAttr(foreign_key_result[k], primaryKey[1])]
        foreign_key_map == MapOf([k \in DOMAIN got |-> got[k].value],
                                 foreign_key_result)
    IN  IF sub.status # "ok" THEN sub
        ELSE IF Len(primaryKey) > 1
        THEN Returned([r \in DOMAIN result |->
                          LET row_value == get_fk_as_tuple(result[r], values)
                          IN  set_values(result[r], values,
                                         IF row_value \in DOMAIN lookup_map
                                         THEN lookup_map[row_value] ELSE Null)],
                      sub.log)
        ELSE IF primaryKey = <<>> THEN Raised("IndexError", sub.log)
        ELSE IF \E k \in DOMAIN got : got[k].status # "ok"
        THEN Raised("AttributeError", sub.log)
        ELSE IF \E k \in DOMAIN got : ~Hashable(got[k].value)
        THEN Raised("TypeError", sub.log)
        ELSE Returned(update_result_dict(result, values[1].db_field_name,
                                         foreign_key_map, Null),
                      sub.log)

\* _parse_db_result_to_dataclass, lines 207-239, from the i-th foreign key on
ParseForeignKeys(cls, result, i, queries, stack) ==
    IF i > Len(ForeignKeys(cls)) THEN Returned(result, queries)
    ELSE
    LET values == ForeignKeys(cls)[i].cols
        tuples == {get_fk_as_tuple(result[r], values) : r \in DOMAIN result}
        foreign_key_values == {t \in tuples : \A j \in DOMAIN t : t[j] # Null}
        reference == values[1].reference
        primaryKey == SchemaPrimaryKey(reference)
        query == appendIn(append(append(QueryBuilder,
                                        <<WSelect, WFrom(reference)>>, <<>>),
                                 <<WWhere, WCols(primaryKey)>>, <<>>),
                          SetToSeq({TupleOf(t) : t \in foreign_key_values}))
    IN  IF \E t \in tuples : \E j \in DOMAIN t : ~Hashable(t[j])
        THEN Raised("TypeError", queries)
        ELSE IF foreign_key_values = {}
        THEN ParseForeignKeys(cls, result, i + 1, queries, stack)
        ELSE NextForeignKey(cls, i, stack,
                 SubstituteForeignKey(result, values, primaryKey,
                     get_data_with_query(reference, query, "EAGER", queries, stack)))

\* the loop of line 207 goes on after a foreign key, unless it raised
NextForeignKey(cls, i, stack, step) ==
    IF step.status # "ok" THEN step
    ELSE ParseForeignKeys(cls, step.value, i + 1, step.log, stack)

\* _parse_db_result_to_dataclass, lines 247-253: the rows after the children
\* the batched query returned (sub) are grouped under their parents
GroupChildren(result, value, sub) ==
    LET one_to_many_result == sub.value.items
        got == [k \in DOMAIN one_to_many_result |->
                   GetAttr(one_to_many_result[k], value.referenced_column)]
        row_values == [k \in DOMAIN got |-> got[k].value]
        result_map == [v \in Range(row_values) |->
                          ListOf(GroupOf(row_values, one_to_many_result, v))]
    IN  IF sub.status # "ok" THEN sub
        ELSE IF \E k \in DOMAIN got : got[k].status # "ok"
        THEN Raised("AttributeError", sub.log)
        ELSE IF \E k \in DOMAIN got : ~Hashable(got[k].value)
        THEN Raised("TypeError", sub.log)
        ELSE Returned(update_result_dict(result, value.db_field_name, result_map,
                                         ListOf(<<>>)),
                      sub.log)

\* AbstractTable.get_data_with_where
get_data_with_where(cls, query, fetch_type, queries, stack) ==
    get_data_with_query(cls,
        append_self(append(QueryBuilder, <<WSelect, WFrom(cls), WWhere>>, <<>>),
                    query),
        fetch_type, queries, stack)

\* _parse_db_result_to_dataclass, lines 241-253, from the i-th one-to-many
\* field on
ParseOneToMany(cls, result, i, queries, stack) ==
    IF i > Len(OneToManyFields(cls)) THEN Returned(result, queries)
    ELSE
    LET value == OneToManyFields(cls)[i].cols[1]
        db_values == {result[r][value.db_field_name] : r \in DOMAIN result}
        query == appendIn(append(QueryBuilder,
                                 <<WCol(value.referenced_column)>>, <<>>),
                          SetToSeq(db_values))
    IN  IF \E v \in db_values : ~Hashable(v) THEN Raised("TypeError", queries)
        ELSE IF query.error # "ok" THEN Raised(query.error, queries)
        ELSE NextOneToMany(cls, i, stack,
                 GroupChildren(result, value,
                     get_data_with_where(value.reference, query, "EAGER",
                                         queries, stack)))

\* the loop of line 243 goes on after a one-to-many field, unless it raised
NextOneToMany(cls, i, stack, step) ==
    IF step.status # "ok" THEN step
    ELSE ParseOneToMany(cls, step.value, i + 1, step.log, stack)

\* the one-to-many loop follows the foreign-key loop, unless that raised
AfterForeignKeys(cls, stack, fks) ==
    IF fks.status # "ok" THEN fks
    ELSE ParseOneToMany(cls, fks.value, 1, fks.log, stack)

\* line 255: [self.dataclass.from_db_dict(row) for row in result]
ToDataclasses(cls, parsed) ==
    IF parsed.status # "ok" THEN parsed
    ELSE Returned(ListOf([r \in DOMAIN parsed.value |->
                             from_db_dict(cls, parsed.value[r])]),
                  parsed.log)

\* AbstractTable._parse_db_result_to_dataclass on what the select gave
parse_db_result_to_dataclass(cls, selected, fetch_type, executed, stack) ==
    IF selected.status # "ok" THEN Raised(selected.status, executed)
    ELSE IF selected.rows = <<>> THEN Returned(ListOf(<<>>), executed)
    ELSE IF fetch_type = "LAZY"
    THEN ToDataclasses(cls, Returned(selected.rows, executed))
    ELSE ToDataclasses(cls,
             AfterForeignKeys(cls, stack,
                 ParseForeignKeys(cls, selected.rows, 1, executed, stack)))

\* AbstractTable.get_data_with_query
get_data_with_query(cls, qb, fetch_type, queries, stack) ==
    IF qb.error # "ok" THEN Raised(qb.error, queries)
    ELSE IF Frame("get_data_with_query", cls, qb, fetch_type) \in Range(stack)
    THEN Raised("RecursionError", queries)
    ELSE parse_db_result_to_dataclass(cls, execute_select_query(qb), fetch_type,
             Executed(queries, cls, qb, stack),
             Append(stack, Frame("get_data_with_query", cls, qb, fetch_type)))

\* get_one_or_none_with_query, lines 287-290, from the i-th foreign key on
OneForeignKeys(cls, result_as_dict, i, queries, stack) ==
    IF i > Len(ForeignKeys(cls)) THEN Returned(result_as_dict, queries)
    ELSE NextOneForeignKey(cls, result_as_dict, i, stack,
             get_one(ForeignKeys(cls)[i].cols[1].reference,
                     TupleOf(get_fk_as_tuple(result_as_dict,
                                             ForeignKeys(cls)[i].cols)),
                     TRUE, "EAGER", queries, stack))

\* line 290, and the loop of line 287 goes on unless get_one raised
NextOneForeignKey(cls, result_as_dict, i, stack, resolved) ==
    IF resolved.status # "ok" THEN resolved
    ELSE OneForeignKeys(cls,
             set_values(result_as_dict, ForeignKeys(cls)[i].cols, resolved.value),
             i + 1, resolved.log, stack)

\* get_one_or_none_with_query, lines 292-296, from the i-th one-to-many
\* field on
OneOneToMany(cls, result_as_dict, i, queries, stack) ==
    IF i > Len(OneToManyFields(cls)) THEN Returned(result_as_dict, queries)
    ELSE
    LET values == OneToManyFields(cls)[i].cols[1]
        key == result_as_dict[values.db_field_name]
        query == append(QueryBuilder, <<WEq("", values.referenced_column)>>, <<key>>)
    IN  NextOneOneToMany(cls, result_as_dict, i, stack,
            get_data_with_where(values.reference, query, "EAGER", queries, stack))

\* line 296, and the loop of line 292 goes on unless the query raised
NextOneOneToMany(cls, result_as_dict, i, stack, resolved) ==
    IF resolved.status # "ok" THEN resolved
    ELSE OneOneToMany(cls,
             [result_as_dict EXCEPT
                 ![OneToManyFields(cls)[i].cols[1].db_field_name] = resolved.value],
             i + 1, resolved.log, stack)

\* the one-to-many loop follows the foreign-key loop, unless that raised
AfterOneForeignKeys(cls, stack, fks) ==
    IF fks.status # "ok" THEN fks
    ELSE OneOneToMany(cls, fks.value, 1, fks.log, stack)

\* line 298: self.dataclass.from_db_dict(result_as_dict)
ToDataclass(cls, parsed) ==
    IF parsed.status # "ok" THEN parsed
    ELSE Returned(from_db_dict(cls, parsed.value), parsed.log)

\* get_one_or_none_with_query, lines 283-298, on what the select gave
FirstRowToDataclass(cls, selected, fetch_type, executed, stack) ==
    IF selected.status # "ok" THEN Raised(selected.status, executed)
    ELSE IF selected.rows = <<>> THEN Returned(Null, executed)
    ELSE IF fetch_type # "EAGER"
    THEN ToDataclass(cls, Returned(selected.rows[1], executed))
    ELSE ToDataclass(cls,
             AfterOneForeignKeys(cls, stack,
                 OneForeignKeys(cls, selected.rows[1], 1, executed, stack)))

\* AbstractTable.get_one_or_none_with_query
get_one_or_none_with_query(cls, qb, fetch_type, queries, stack) ==
    IF qb.error # "ok" THEN Raised(qb.error, queries)
    ELSE IF Frame("get_one_or_none_with_query", cls, qb, fetch_type) \in Range(stack)
    THEN Raised("RecursionError", queries)
    ELSE FirstRowToDataclass(cls, execute_select_query(qb), fetch_type,
             Executed(queries, cls, qb, stack),
             Append(stack, Frame("get_one_or_none_with_query", cls, qb, fetch_type)))

\* get_one, lines 42-44
FoundOrRaise(result, nullable) ==
    IF result.status # "ok" THEN result
    ELSE IF result.value = Null /\ ~nullable THEN Raised("ValueError", result.log)
    ELSE result

\* AbstractTable.get_one
get_one(cls, key, nullable, fetch_type, queries, stack) ==
    FoundOrRaise(get_one_or_none_with_query(cls,
                     generate_query_with_pk(cls, NormalizeKey(key)),
                     fetch_type, queries, stack),
                 nullable)

\* AbstractTable.get_all
get_all(cls, fetch_type) ==
    get_data_with_query(cls, append(QueryBuilder, <<WSelect, WFrom(cls)>>, <<>>),
                        fetch_type, <<>>, <<>>)

(***************************************************************************)
(* The databases the reads run on, and the calls of running code.          *)
(***************************************************************************)
Keys == 1..MaxKey
RawValues == {Null} \cup {IntV(k) : k \in Keys}
FirstOrNull == {Null, IntV(1)}
FetchTypes == {"EAGER", "LAZY"}

\* the rows with primary key 1..m of a table all of whose columns hold the key
KeyRows(cls, m) ==
    [k \in 1..m |-> [c \in Range(SchemaColumns(cls)) |-> IntV(k)]]

\* every content of n rows with id 1..n whose other columns are one of choices
Rows(cls, n, choices) ==
    {[i \in 1..n |-> [c \in Range(SchemaColumns(cls)) |->
                         IF c = "id" THEN IntV(i) ELSE f[i][c]]] :
        f \in [1..n -> choices]}

KeyTables(cls) == {KeyRows(cls, m) : m \in 0..MaxKey}
RefTables(cls, choices) == UNION {Rows(cls, n, choices) : n \in 0..MaxRows}

\* a database holds the tables of one pair of related classes
Databases ==
    {("Customer" :> t) @@ ("Order" :> r) :
        t \in KeyTables("Customer"),
        r \in RefTables("Order", [{"customer"} -> RawValues])}
    \cup
    {("Item" :> t) @@ ("Line" :> r) :
        t \in KeyTables("Item"),
        r \in RefTables("Line", {[item_a |-> x, item_b |-> y] :
                                   x \in RawValues, y \in FirstOrNull})}
    \cup
    {("Dept" :> t) @@ ("Emp" :> r) :
        t \in UNION {Rows("Dept", m, [{"head"} -> RawValues]) : m \in 0..MaxKey},
        r \in RefTables("Emp", [{"dept"} -> FirstOrNull])}
    \cup
    {("Shop" :> t) @@ ("Ticket" :> r) :
        t \in KeyTables("Shop"),
        r \in RefTables("Ticket", [{"shop"} -> RawValues])}
    \cup
    {("Parent" :> t) @@ ("Child" :> r) :
        t \in KeyTables("Parent"),
        r \in RefTables("Child", [{"parent_id"} -> RawValues])}

\* the keys running code passes to get_one: a bare scalar or a tuple
KeyInputs(cls) ==
    {TupleOf(t) : t \in [1..Len(SchemaPrimaryKey(cls)) -> {IntV(k) : k \in Keys}]}
    \cup (IF Len(SchemaPrimaryKey(cls)) = 1 THEN {IntV(k) : k \in Keys} ELSE {})

ReadInit ==
    /\ NoTransaction
    /\ db \in Databases
    /\ call = Idle
    /\ outcome = NoOutcome
    /\ builder = [calls |-> <<>>]

\* table.get_all(fetch_type)
GetAll(cls, fetch_type) ==
    /\ call = Idle
    /\ cls \in DOMAIN db
    /\ call' = [op |-> "get_all", cls |-> cls, fetch_type |-> fetch_type]
    /\ outcome' = get_all(cls, fetch_type)
    /\ UNCHANGED db
    /\ UNCHANGED connVars
    /\ UNCHANGED builder

\* table.get_one(key, nullable, fetch_type)
GetOne(cls, key, nullable, fetch_type) ==
    /\ call = Idle
    /\ cls \in DOMAIN db
    /\ call' = [op |-> "get_one", cls |-> cls, key |-> key, nullable |-> nullable,
                fetch_type |-> fetch_type]
    /\ outcome' = get_one(cls, key, nullable, fetch_type, <<>>, <<>>)
    /\ UNCHANGED db
    /\ UNCHANGED connVars
    /\ UNCHANGED builder

\* running code takes the result (or the exception) and goes on
Return ==
    /\ call # Idle
    /\ call' = Idle
    /\ outcome' = NoOutcome
    /\ UNCHANGED db
    /\ UNCHANGED connVars
    /\ UNCHANGED builder

GetAllStep == \E cls \in Classes, fetch_type \in FetchTypes : GetAll(cls, fetch_type)

GetOneStep ==
    \E cls \in Classes : \E key \in KeyInputs(cls), nullable \in BOOLEAN,
                            fetch_type \in FetchTypes :
        GetOne(cls, key, nullable, fetch_type)

NextRead ==
    \/ GetAllStep
    \/ GetOneStep
    \/ Return

SpecRead == ReadInit /\ [][NextRead]_vars

(***************************************************************************)
(* AbstractTable.py: writing.  Every operator returns what the call        *)
(* returned or raised, the statements it handed to the connection of its   *)
(* transaction scope (with what the connection answered) and the calls the *)
(* backend saw when the scope was left.                                    *)
(***************************************************************************)
Wrote(status, statements, backend) ==
    [status |-> status, value |-> Null, log |-> statements, backend |-> backend]

\* Connection.__enter__ hands out the sqlite3 connection itself, whose
\* execute takes the SQL text: a QueryBuilder is refused with TypeError
conn_execute(statement_is_text) ==
    IF statement_is_text THEN "ok" ELSE "TypeError"

\* sqlite3's executemany of a text: every parameter row must bind exactly
\* the placeholders of the text, with integers and NULL
conn_executemany(text, rows) ==
    IF \A k \in DOMAIN rows :
          /\ Len(rows[k]) = Sum([i \in DOMAIN text |-> WordPlaceholders(text[i])])
          /\ Bindable(rows[k])
    THEN "ok" ELSE "ProgrammingError"

\* Connection.__exit__ of the scope entered at depth current_depth: the
\* calls the backend sees
ScopeExit(current_depth, exc_type) ==
    IF current_depth > 0 /\ IsOutermostExit(NewDepth(current_depth))
    THEN <<Finalisation(exc_type), "close">>
    ELSE <<>>

\* a statement handed to the connection
Statement(via, qb, params, status) ==
    [via |-> via, query |-> QueryText(qb), params |-> params, status |-> status]

\* AbstractTable.execute inside `depth` enclosing scopes
execute(qb, depth, statements) ==
    Wrote(conn_execute(FALSE),
          Append(statements, Statement("execute", qb, qb.params, conn_execute(FALSE))),
          ScopeExit(depth + 1, conn_execute(FALSE) # "ok"))

\* AbstractTable._columns_to_insert: the columns, or the error raised
columns_to_insert(cls, data) ==
    LET auto_generated == Range(AutoGeneratedFields(cls))
        columns == SchemaColumns(cls)
    IN  IF \E i \in DOMAIN columns :
              columns[i] \in auto_generated /\ GetAttr(data, columns[i]).status # "ok"
        THEN [status |-> "AttributeError", columns |-> <<>>]
        ELSE [status |-> "ok",
              columns |-> SelectSeq(columns,
                  LAMBDA col : \/ col \notin auto_generated
                               \/ GetAttr(data, col).value # Null)]

\* AbstractTable._insert, lines 54-60, with the columns and their values
InsertColumns(cls, column_names, values) ==
    IF values.status # "ok" THEN Wrote(values.status, <<>>, <<>>)
    ELSE execute(append(append(QueryBuilder,
                               <<WInsert(cls, column_names)>>, <<>>),
                        <<WValues(Len(column_names))>>, values.values),
                 0, <<>>)

\* AbstractTable.insert
insert(cls, data) ==
    LET column_names == columns_to_insert(cls, data)
    IN  IF column_names.status # "ok" THEN Wrote(column_names.status, <<>>, <<>>)
        ELSE InsertColumns(cls, column_names.columns,
                           get_values_for_columns(data, column_names.columns, {}))

\* AbstractTable._get_different_columns
get_different_columns(cls, data1, data2) ==
    {Fields(cls)[i].cols[j].db_field_name :
        <<i, j>> \in {<<i, j>> \in (DOMAIN Fields(cls)) \X (1..Len(AllColumns(cls))) :
            /\ j \in DOMAIN Fields(cls)[i].cols
            /\ Fields(cls)[i].cols[j].db_field_name \notin Range(SchemaPrimaryKey(cls))
            /\ ~Fields(cls)[i].cols[j].auto_generated
            /\ get_db_value(data1, Fields(cls)[i].key)
               # get_db_value(data2, Fields(cls)[i].key)}}

\* _update, lines 129-155: the cascade of the one-to-many fields from the
\* i-th on, inside the scope of line 117
RECURSIVE Cascade(_, _, _, _, _)

\* lines 152-155: the DELETE of the children that are no longer in the list
CascadeDelete(cls, data, different_columns, i, delete_query, deleted) ==
    IF delete_query.error # "ok"
    THEN Wrote(delete_query.error, Front(deleted.log), ScopeExit(1, TRUE))
    ELSE IF deleted.status # "ok"
    THEN Wrote(deleted.status, deleted.log, ScopeExit(1, TRUE))
    ELSE Cascade(cls, data, different_columns, i + 1, deleted.log)

\* lines 151-155, with the statement of lines 140-145 and its rows
CascadeMany(cls, data, different_columns, i, col, items, statements, many) ==
    IF many.status # "ok" THEN Wrote(many.status, statements, ScopeExit(1, TRUE))
    ELSE CHOOSE wrote \in
        {CascadeDelete(cls, data, different_columns, i, delete_query,
                       execute(delete_query, 1, Append(statements, many))) :
            delete_query \in
                {appendIn(append(append(QueryBuilder,
                                        <<WDelete(without_alias(col.reference)), WWhere,
                                          WEq("", col.referenced_column), WAnd>>,
                                        get_db_value(data, col.field_name)),
                                 <<WNot(SchemaPrimaryKey(without_alias(col.reference)))>>,
                                 <<>>),
                          [k \in DOMAIN items |-> TupleOf(pk(items[k]))])}} :
        TRUE

\* lines 146-151: one row of parameters per child
CascadeRows(cls, data, different_columns, i, col, items, statements, reference_query, db_columns) ==
    IF \E k \in DOMAIN items : db_columns[k].status # "ok"
    THEN Wrote("ValueError", statements, ScopeExit(1, TRUE))
    ELSE CHOOSE wrote \in
        {CascadeMany(cls, data, different_columns, i, col, items, statements,
                     Statement("executemany", reference_query, params,
                               conn_executemany(QueryText(reference_query), params))) :
            params \in {[k \in DOMAIN items |-> db_columns[k].values \o pk(items[k])]}} :
        TRUE

\* lines 138-151, with the columns of the child table that are no key
CascadeItems(cls, data, different_columns, i, col, items, statements, columns_to_update) ==
    CascadeRows(cls, data, different_columns, i, col, items, statements,
                append_self(append(append(QueryBuilder,
                                          <<WUpdate(without_alias(col.reference))>>, <<>>),
                                   <<WSet(columns_to_update)>>, <<>>),
                            generate_where_with_pk([alias |-> "", primaryKey |->
                                SchemaPrimaryKey(without_alias(col.reference))], <<>>)),
                [k \in DOMAIN items |->
                    get_values_for_columns(items[k], columns_to_update, {})])

\* lines 134-138, with what getattr(data, col.db_field_name) gave
CascadeField(cls, data, different_columns, i, col, one_to_many_data, statements) ==
    IF one_to_many_data.status # "ok"
    THEN Wrote(one_to_many_data.status, statements, ScopeExit(1, TRUE))
    ELSE IF \/ one_to_many_data.value = Null
            \/ one_to_many_data.value.kind # "list"
            \/ one_to_many_data.value.items = <<>>
    THEN Cascade(cls, data, different_columns, i + 1, statements)
    ELSE IF \E k \in DOMAIN one_to_many_data.value.items :
               one_to_many_data.value.items[k].kind # "entity"
    THEN Wrote("AttributeError", statements, ScopeExit(1, TRUE))
    ELSE CascadeItems(cls, data, different_columns, i, col,
                      one_to_many_data.value.items, statements,
                      SelectSeq(SchemaColumns(without_alias(col.reference)),
                          LAMBDA c :
                              c \notin Range(SchemaPrimaryKey(without_alias(col.reference)))))

Cascade(cls, data, different_columns, i, statements) ==
    IF i > Len(OneToManyFields(cls))
    THEN Wrote("ok", statements, ScopeExit(1, FALSE))
    ELSE IF OneToManyFields(cls)[i].cols[1].db_field_name \in Range(different_columns)
    THEN Wrote("ValueError", statements, ScopeExit(1, TRUE))
    ELSE CascadeField(cls, data, different_columns, i, OneToManyFields(cls)[i].cols[1],
                      GetAttr(data, OneToManyFields(cls)[i].cols[1].db_field_name),
                      statements)

\* _update, line 128 and the loop of line 130, with the UPDATE of lines 122-127
UpdateMain(cls, data, different_columns, main_query) ==
    IF main_query.status # "ok"
    THEN Wrote(main_query.status, <<main_query>>, ScopeExit(1, TRUE))
    ELSE Cascade(cls, data, different_columns, 1, <<main_query>>)

\* _update, lines 117-128: the UPDATE of the row of data
UpdateRow(cls, data, different_columns, attr) ==
    IF different_columns = <<>> THEN Cascade(cls, data, different_columns, 1, <<>>)
    ELSE IF attr.status # "ok" THEN Wrote(attr.status, <<>>, ScopeExit(1, TRUE))
    ELSE CHOOSE wrote \in
        {UpdateMain(cls, data, different_columns,
                    Statement("execute", main_query, main_query.params,
                              conn_execute(FALSE))) :
            main_query \in
                {append_self(append(append(QueryBuilder,
                                           <<WUpdate(without_alias(cls))>>, <<>>),
                                    <<WSet(different_columns)>>, attr.values),
                             generate_where_with_pk([alias |-> "", primaryKey |->
                                 SchemaPrimaryKey(without_alias(cls))], pk(data)))}} :
        TRUE

\* _update, lines 115-116, once the persisted entity was read
UpdateExisting(cls, data, existing_data) ==
    IF existing_data.status # "ok" THEN Wrote(existing_data.status, <<>>, <<>>)
    ELSE CHOOSE wrote \in
            {UpdateRow(cls, data, different_columns,
                       get_values_for_columns(data, different_columns, {})) :
                different_columns \in
                    {SetToSeq(get_different_columns(cls, data, existing_data.value))}} :
            TRUE

\* bool(value)
Truthy(value) ==
    IF value = Null THEN FALSE
    ELSE IF value.kind = "int" THEN value.val # 0
    ELSE IF value.kind \in {"tuple", "list"} THEN value.items # <<>>
    ELSE TRUE

\* AbstractTable._delete
delete_(cls, primary_key) ==
    LET schema == without_alias(cls)
    IN  execute(append_self(append(QueryBuilder, <<WDelete(schema)>>, <<>>),
                            generate_where_with_pk([alias |-> "",
                                                    primaryKey |-> SchemaPrimaryKey(schema)],
                                                   ParamList(primary_key))),
                0, <<>>)

\* AbstractTable.delete
delete(cls, data, key) ==
    IF ~(Truthy(data) \/ Truthy(key)) THEN Wrote("AssertionError", <<>>, <<>>)
    ELSE delete_(cls, IF (data.kind = "entity" /\ data.cls = cls) /\ ~Truthy(key)
                      THEN TupleOf(pk(data)) ELSE key)

(***************************************************************************)
(* The entities running code holds, the databases the writes run on, and   *)
(* the write calls.                                                        *)
(***************************************************************************)
\* the instances of a class that running code holds: a reference is unset,
\* a raw key (the constructor wraps it in a LazyField, as from_db_dict does)
\* or the resolved entity; a collection is unset, a raw key, empty or one
\* child; an auto-generated key is unset or set
Entities(cls) ==
    LET Customers == {BaseDataInit("Customer", [id |-> k, name |-> v]) :
                         k \in (RawValues \ {Null}), v \in (RawValues \ {Null})}
        Items == {BaseDataInit("Item", [a |-> x, b |-> y]) :
                     x \in (RawValues \ {Null}), y \in (RawValues \ {Null})}
        Children == {BaseDataInit("Child", [id |-> k, parent_id |-> v]) :
                        k \in (RawValues \ {Null}), v \in (RawValues \ {Null})}
    IN  CASE cls = "Customer" -> Customers
          [] cls = "Order" ->
               {BaseDataInit("Order", [id |-> k, customer |-> c]) :
                   k \in (RawValues \ {Null}), c \in {Null} \cup (RawValues \ {Null}) \cup Customers}
          [] cls = "Item" -> Items
          [] cls = "Line" ->
               {BaseDataInit("Line", [id |-> k, item |-> i]) :
                   k \in (RawValues \ {Null}), i \in {Null} \cup (RawValues \ {Null}) \cup Items}
          [] cls = "Child" -> Children
          [] cls = "Parent" ->
               {BaseDataInit("Parent", [id |-> k, children |-> c]) :
                   k \in (RawValues \ {Null}),
                   c \in {Null, ListOf(<<>>)} \cup (RawValues \ {Null})
                         \cup {ListOf(<<x>>) : x \in Children}}
          [] cls = "Tag" ->
               {BaseDataInit("Tag", [id |-> k, label |-> v]) :
                   k \in {Null} \cup (RawValues \ {Null}), v \in (RawValues \ {Null})}
          [] cls = "Note" ->
               {BaseDataInit("Note", [id |-> k, text |-> v]) :
                   k \in {Null} \cup (RawValues \ {Null}), v \in (RawValues \ {Null})}
          [] cls = "Profile" ->
               {BaseDataInit("Profile", [customer |-> c, bio |-> v]) :
                   c \in (RawValues \ {Null}) \cup Customers, v \in RawValues}
          [] cls = "Detail" ->
               {BaseDataInit("Detail", [item |-> i, qty |-> v]) :
                   i \in Items, v \in RawValues}
          [] OTHER -> {}

\* a database holds the tables of one pair of classes; a reference of a row
\* is null or the key of the first row of the referenced table
WriteDatabases ==
    {("Customer" :> t) @@ ("Order" :> r) :
        t \in KeyTables("Customer"),
        r \in RefTables("Order", [{"customer"} -> FirstOrNull])}
    \cup
    {("Item" :> t) @@ ("Line" :> r) :
        t \in KeyTables("Item"),
        r \in RefTables("Line", {[item_a |-> x, item_b |-> x] : x \in FirstOrNull})}
    \cup
    {("Parent" :> t) @@ ("Child" :> r) :
        t \in KeyTables("Parent"),
        r \in RefTables("Child", [{"parent_id"} -> FirstOrNull])}
    \cup
    {("Tag" :> t) @@ ("Note" :> r) :
        t \in KeyTables("Tag"), r \in KeyTables("Note")}

\* table.insert(data), called outside any scope.  No row changes: the
\* connection refuses the statement and the scope rolls back.
Insert(cls, data) ==
    /\ call = Idle
    /\ cls \in DOMAIN db
    /\ call' = [op |-> "insert", cls |-> cls, data |-> data]
    /\ outcome' = insert(cls, data)
    /\ UNCHANGED db
    /\ UNCHANGED connVars
    /\ UNCHANGED builder

\* table.update(data), called outside any scope, up to line 115: the
\* persisted entity is read on the table's own read connection, before the
\* scope of line 117 is entered; concurrent is whether another connection
\* has committed since
UpdateRead(cls, data) ==
    /\ call = Idle
    /\ cls \in DOMAIN db
    /\ call' = [op |-> "update_read", cls |-> cls, data |-> data,
                concurrent |-> FALSE,
                existing_data |-> get_one(cls, TupleOf(pk(data)), FALSE, "LAZY",
                                          <<>>, <<>>)]
    /\ outcome' = NoOutcome
    /\ UNCHANGED db
    /\ UNCHANGED connVars
    /\ UNCHANGED builder

\* another connection to the database commits an UPDATE of the row update
\* has read, setting the columns of one field, while update(data) is between
\* its read and its scope: the read took no lock and update's own
\* transaction has not begun (BEGIN is issued by Connection.__enter__, which
\* line 117 calls)
OtherCommit(field, value) ==
    /\ call.op = "update_read"
    /\ \E r \in DOMAIN db[call.cls] :
          /\ [i \in DOMAIN SchemaPrimaryKey(call.cls) |->
                 db[call.cls][r][SchemaPrimaryKey(call.cls)[i]]] = pk(call.data)
          /\ db' = [db EXCEPT ![call.cls][r] =
                       [c \in DOMAIN @ |->
                           IF /\ c \notin Range(SchemaPrimaryKey(call.cls))
                              /\ \E j \in DOMAIN field.cols : field.cols[j].db_field_name = c
                           THEN value ELSE @[c]]]
    /\ db' # db
    /\ call' = [call EXCEPT !.concurrent = TRUE]
    /\ UNCHANGED outcome
    /\ UNCHANGED connVars
    /\ UNCHANGED builder

\* table.update(data) from line 116 on: the columns that differ from the
\* entity read before, the scope, its statements and its exit.  update
\* changes no row: a scope that commits has executed no statement.
UpdateWrite ==
    /\ call.op = "update_read"
    /\ call' = [op |-> "update", cls |-> call.cls, data |-> call.data,
                concurrent |-> call.concurrent]
    /\ outcome' = UpdateExisting(call.cls, call.data, call.existing_data)
    /\ UNCHANGED db
    /\ UNCHANGED connVars
    /\ UNCHANGED builder

\* table.delete(data, key), called outside any scope; Null is an argument
\* left out
Delete(cls, data, key) ==
    /\ call = Idle
    /\ cls \in DOMAIN db
    /\ call' = [op |-> "delete", cls |-> cls, data |-> data, key |-> key]
    /\ outcome' = delete(cls, data, key)
    /\ UNCHANGED db
    /\ UNCHANGED connVars
    /\ UNCHANGED builder

\* the keys passed to delete are those of the reads and the falsy key 0
NextWrite ==
    \/ /\ call = Idle
       /\ \E cls \in DOMAIN db : \E data \in Entities(cls) : Insert(cls, data)
    \/ /\ call = Idle
       /\ \E cls \in DOMAIN db :
             \E data \in {Null, IntV(0)} \cup Entities(cls) \cup KeyInputs(cls),
                key \in {Null, IntV(0)} \cup KeyInputs(cls) :
                Delete(cls, data, key)
    \/ /\ call = Idle
       /\ \E cls \in DOMAIN db : \E data \in Entities(cls) : UpdateRead(cls, data)
    \/ /\ call.op = "update_read"
       /\ call.existing_data.status = "ok"
       /\ call.existing_data.value # Null
       /\ \E i \in DOMAIN Fields(call.cls), value \in FirstOrNull :
             OtherCommit(Fields(call.cls)[i], value)
    \/ UpdateWrite
    \/ Return

WriteInit ==
    /\ NoTransaction
    /\ db \in WriteDatabases
    /\ call = Idle
    /\ outcome = NoOutcome
    /\ builder = [calls |-> <<>>]

SpecWrite == WriteInit /\ [][NextWrite]_vars

(***************************************************************************)
(* Calls on entities alone (BaseData.py): no table, no connection.         *)
(***************************************************************************)
\* self == other; row is the row other was read from with
\* cls.from_db_dict(row), as a LAZY read does, or Null
Equals(self, other, row) ==
    /\ call = Idle
    /\ call' = [op |-> "eq", self |-> self, other |-> other, row |-> row]
    /\ outcome' = [status |-> "ok", equal |-> BaseDataEq(self, other)]
    /\ UNCHANGED db
    /\ UNCHANGED connVars
    /\ UNCHANGED builder

\* entity.__class__(**entity.as_dict()), as copy() and a load from as_json()
\* do, compared with the entity
RoundTrip(entity) ==
    /\ call = Idle
    /\ call' = [op |-> "round_trip", entity |-> entity, dict |-> as_dict(entity)]
    /\ outcome' =
          IF as_dict(entity).status # "ok"
          THEN [status |-> as_dict(entity).status, equal |-> FALSE]
          ELSE [status |-> "ok",
                equal |-> BaseDataEq(entity,
                             BaseDataInit(entity.cls, as_dict(entity).value.attrs))]
    /\ UNCHANGED db
    /\ UNCHANGED connVars
    /\ UNCHANGED builder

\* entity.pk
Pk(entity) ==
    /\ call = Idle
    /\ call' = [op |-> "pk", entity |-> entity]
    /\ outcome' = [status |-> "ok", value |-> pk(entity)]
    /\ UNCHANGED db
    /\ UNCHANGED connVars
    /\ UNCHANGED builder

\* generate_where_with_pk(schema, pk_values)
Where(schema, pk_values) ==
    /\ call = Idle
    /\ call' = [op |-> "generate_where_with_pk", schema |-> schema, pk |-> pk_values]
    /\ outcome' = generate_where_with_pk(schema, pk_values)
    /\ UNCHANGED db
    /\ UNCHANGED connVars
    /\ UNCHANGED builder

\* entity.get_values_for_columns(columns)
ValuesForColumns(entity, columns) ==
    /\ call = Idle
    /\ call' = [op |-> "get_values_for_columns", entity |-> entity,
                columns |-> columns]
    /\ outcome' = get_values_for_columns(entity, columns, {})
    /\ UNCHANGED db
    /\ UNCHANGED connVars
    /\ UNCHANGED builder

NextData ==
    \/ /\ call = Idle
       /\ \E cls \in {"Customer", "Order", "Line"} :
             \E self \in Entities(cls),
                other \in Entities(cls) \cup Entities("Customer") \cup {Null, IntV(1)} :
                Equals(self, other, Null)
    \/ /\ call = Idle
       /\ \E cls \in {"Order", "Line"} :
             \E self \in Entities(cls),
                row \in [Range(SchemaColumns(cls)) ->
                            RawValues \cup (IF cls = "Order" THEN Entities("Customer")
                                                             ELSE {})] :
                /\ row["id"] # Null
                /\ row["id"].kind = "int"
                /\ \A c, d \in Range(SchemaColumns(cls)) \ {"id"} :
                      (row[c] = Null) = (row[d] = Null)
                /\ Equals(self, from_db_dict(cls, row), row)
    \/ /\ call = Idle
       /\ \E cls \in {"Order", "Line", "Note"} :
             \E entity \in Entities(cls),
                columns \in UNION {[1..n -> Range(SchemaColumns(cls)) \cup {"missing"}] :
                                      n \in 0..MaxColumns} :
                ValuesForColumns(entity, columns)
    \/ /\ call = Idle
       /\ \E cls \in {"Customer", "Order", "Line", "Parent"} :
             \E entity \in Entities(cls) : RoundTrip(entity)
    \/ /\ call = Idle
       /\ \E cls \in {"Order", "Item", "Line", "Profile", "Detail"} :
             \E entity \in Entities(cls) : Pk(entity)
    \/ /\ call = Idle
       /\ \E alias \in {"", "t1"}, n \in 0..MaxKey :
             \E primaryKey \in {k \in [1..n -> {"id", "name", "a"}] :
                                   \A i, j \in 1..n : k[i] = k[j] => i = j},
                pk_values \in [1..n -> RawValues \ {Null}] :
                Where([alias |-> alias, primaryKey |-> primaryKey], pk_values)
    \/ Return

SpecData == ConnInit /\ [][NextData]_vars

(***************************************************************************)
(* Calls on one QueryBuilder (QueryBuilder.py).  builder.qb is the builder *)
(* object, builder.calls the calls made on it so far, each with what it    *)
(* raised or returned and the builder it found.                            *)
(***************************************************************************)
\* builder.append(query, params): the call is recorded with the builder it
\* found, what it raised and what it returned
AppendCall(query, params) ==
    /\ Len(builder.calls) < MaxCalls
    /\ builder' =
          [qb |-> [QueryBuilderAppend(builder.qb, query, params) EXCEPT !.error = "ok"],
           calls |-> Append(builder.calls,
                [op |-> "append", arguments |-> [query |-> query, params |-> params],
                 before |-> builder.qb,
                 status |-> QueryBuilderAppend(builder.qb, query, params).error,
                 returned |-> QueryBuilderAppend(builder.qb, query, params)])]
    /\ UNCHANGED <<db, call, outcome>>
    /\ UNCHANGED connVars

\* builder.appendIn(values)
AppendInCall(values) ==
    /\ Len(builder.calls) < MaxCalls
    /\ builder' =
          [qb |-> [appendIn(builder.qb, values) EXCEPT !.error = "ok"],
           calls |-> Append(builder.calls,
                [op |-> "appendIn", arguments |-> [values |-> values],
                 before |-> builder.qb,
                 status |-> appendIn(builder.qb, values).error,
                 returned |-> IF appendIn(builder.qb, values).error = "ok"
                              THEN appendIn(builder.qb, values) ELSE Null])]
    /\ UNCHANGED <<db, call, outcome>>
    /\ UNCHANGED connVars

\* a string is appended with no parameter, one value or a list of values;
\* the builder merged is an empty one, one with a WHERE fragment, one with
\* two fragments or the builder itself; the values of appendIn are none,
\* scalars in both orders, or tuples
NextBuilder ==
    \/ \E fragment \in {<<WSelect, WFrom("Customer")>>, <<WWhere, WEq("", "id")>>,
                        <<WAnd, WCol("name")>>, <<WCols(<<"a", "b">>)>>},
          params \in {Null, IntV(1), TupleOf(<<IntV(1), IntV(2)>>)} :
          AppendCall([kind |-> "str", fragment |-> fragment], params)
    \/ \E other \in {QueryBuilder,
                     append(QueryBuilder, <<WWhere, WEq("", "id")>>, <<IntV(2)>>),
                     append(append(QueryBuilder, <<WAnd, WEq("", "a")>>, <<IntV(1)>>),
                            <<WAnd, WEq("", "b")>>, <<IntV(2)>>),
                     builder.qb} :
          AppendCall(other, Null)
    \/ \E values \in {[i \in 1..n |-> IntV(i)] : n \in 0..MaxKey}
                     \cup {[i \in 1..n |-> IntV(n + 1 - i)] : n \in 2..MaxKey}
                     \cup {[i \in 1..n |-> TupleOf(<<IntV(i), IntV(i + n)>>)] :
                              n \in 1..MaxKey} :
          AppendInCall(values)

\* QueryBuilder(): no fragment, no parameter, no call made yet
BuilderInit ==
    /\ NoTransaction
    /\ db = NoDatabase
    /\ call = Idle
    /\ outcome = NoOutcome
    /\ builder = [qb |-> QueryBuilder, calls |-> <<>>]

SpecBuilder == BuilderInit /\ [][NextBuilder]_vars

(***************************************************************************)
(* Claims about the transaction scope, checked under SpecConn.             *)
(***************************************************************************)
InScopes(c) == \E i \in DOMAIN scopes : scopes[i] = c

\* the transaction of connection c is over: its outermost scope was left
Finished(c) == hist[c].finished /\ ~InScopes(c)

\* some scope of c was nested inside another one
Nested(c) == hist[c].max_depth >= 2

\* C1: per outermost scope the backend sees exactly one finalisation (one
\* commit or one rollback, never both, never two), only once the depth is
\* back at zero, followed by close; exits of inner scopes (the connection is
\* still held by a scope) perform no commit, rollback or close.
C1_OneFinalisationPerOutermostScope ==
    \A c \in Conns :
        /\ log[c] \in {<<>>, <<"commit", "close">>, <<"rollback", "close">>}
        /\ InScopes(c) => log[c] = <<>>
        /\ log[c] # <<>> => Finished(c) /\ current_connection # c
        /\ Finished(c) => log[c] # <<>>
        /\ (log[c] # <<>> /\ scopes = <<>>) => transaction_depth = 0

C1_Witness ==
    \E c \in Conns :
        /\ log[c] = <<"commit", "close">>
        /\ hist[c].max_depth = MaxNesting

\* C2: every open scope holds the same connection object, the one opened by
\* the outermost scope (no backend connection was opened since); the depth
\* counter equals the number of open scopes; the ambient connection is set
\* exactly when the depth is greater than zero.
C2_DepthCountsOpenScopes ==
    /\ transaction_depth = Len(scopes)
    /\ (current_connection # None) <=> (transaction_depth > 0)
    /\ \A i \in DOMAIN scopes :
          scopes[i] = current_connection /\ scopes[i] = opened

C2_Witness ==
    /\ Len(scopes) = MaxNesting
    /\ transaction_depth = MaxNesting
    /\ opened = MaxConn

\* C3: two nested scopes: when the outer scope exits without an exception the
\* backend sees one commit and no rollback, and a commit that returns makes
\* the inner scope's writes durable; when the outer scope exits with an
\* exception the backend sees one rollback and no commit and nothing is
\* durable, whether or not the inner scope succeeded.
C3_NestedCommitOrRollbackOnce ==
    \A c \in Conns :
        (Finished(c) /\ Nested(c)) =>
            /\ ~hist[c].outer_exc =>
                  /\ log[c] = <<"commit", "close">>
                  /\ hist[c].backend_ok => discarded[c] = {}
            /\ hist[c].outer_exc =>
                  /\ log[c] = <<"rollback", "close">>
                  /\ committed[c] = {}

C3_Witness ==
    \E c \in Conns :
        /\ Finished(c) /\ Nested(c)
        /\ ~hist[c].inner_exc /\ hist[c].outer_exc
        /\ 2 \in discarded[c]
        /\ log[c] = <<"rollback", "close">>

\* C4: an exception raised inside a scope at any nesting depth, also one that
\* leaves an inner scope, rolls the whole outermost transaction back: no
\* write of a transaction one of whose scopes was left by an exception is
\* ever committed.
C4_AnyExceptionRollsBackAll ==
    \A c \in Conns :
        (hist[c].inner_exc \/ hist[c].outer_exc) => committed[c] = {}

\* C26: when the commit or rollback of the outermost exit itself raises, the
\* ambient connection is still cleared, the depth is still reset to zero and
\* the connection is still closed; the next scope entered then starts at
\* depth 1 on a connection opened for it.
C26_CleanupWhenFinalisationRaises ==
    [][\A c \in Conns :
          /\ (~hist[c].finished /\ hist'[c].finished /\ ~hist'[c].backend_ok) =>
                /\ current_connection' = None
                /\ transaction_depth' = 0
                /\ log'[c] # <<>>
                /\ Last(log'[c]) = "close"
          /\ (hist[c].finished /\ ~hist[c].backend_ok
                 /\ Len(scopes') > Len(scopes)) =>
                /\ transaction_depth' = 1
                /\ opened' = opened + 1
                /\ current_connection' = opened'
                /\ current_connection' # c
                /\ scopes' = <<current_connection'>>
                /\ log'[current_connection'] = <<>>
                /\ pending'[current_connection'] = {}]_vars

C26_Witness ==
    \E c \in Conns :
        /\ hist[c].finished /\ ~hist[c].backend_ok
        /\ log[c] = <<"commit", "close">>
        /\ discarded[c] # {}
        /\ current_connection = None
        /\ transaction_depth = 0
        /\ opened < MaxConn
        /\ scopes = <<>>

(***************************************************************************)
(* Claims about reading, checked under SpecRead.                           *)
(***************************************************************************)
Reading == call.op \in {"get_all", "get_one"}

\* the rows of the called table the call is about, in table order
TopRows ==
    IF call.op = "get_all" THEN db[call.cls]
    ELSE SelectSeq(db[call.cls],
                   LAMBDA row : [i \in DOMAIN SchemaPrimaryKey(call.cls) |->
                                    row[SchemaPrimaryKey(call.cls)[i]]]
                                = NormalizeKey(call.key))

\* the entities the call returned, in the same order
TopEntities ==
    IF outcome.value = Null THEN <<>>
    ELSE IF outcome.value.kind = "list" THEN outcome.value.items
    ELSE <<outcome.value>>

HasNull(t) == \E j \in DOMAIN t : t[j] = Null

\* the key tuples a query of the log asked the table for
QueriedKeys(entry) ==
    IF entry.query[Len(entry.query)].w = "IN"
    THEN Range(Groups(entry.query[Len(entry.query)].shape, entry.params))
    ELSE {entry.params}

\* the queries the call itself (not a nested resolution) ran against a table
DirectQueries(table) ==
    {j \in DOMAIN outcome.log :
        outcome.log[j].depth = 1 /\ outcome.log[j].table = table}

\* the primary key of a row of the table of cls
RowKey(cls, row) ==
    [i \in DOMAIN SchemaPrimaryKey(cls) |-> row[SchemaPrimaryKey(cls)[i]]]

HasRow(cls, key) == \E r \in DOMAIN db[cls] : RowKey(cls, db[cls][r]) = key

\* C5: an EAGER get_all of a non-empty table completes; for each foreign-key
\* field it runs one batched query against the referenced table (none when
\* no row has a key without null), whose key set is the distinct keys
\* without null component; a row with such a key holds the target entity
\* with that primary key, or null when the table has no such target.
C5_EagerForeignKeysBatched ==
    (call.op = "get_all" /\ call.fetch_type = "EAGER" /\ db[call.cls] # <<>>) =>
        /\ outcome.status = "ok"
        /\ \A i \in DOMAIN ForeignKeys(call.cls) :
              LET field == ForeignKeys(call.cls)[i]
                  reference == field.cols[1].reference
                  S == {t \in {get_fk_as_tuple(db[call.cls][r], field.cols) :
                                  r \in DOMAIN db[call.cls]} : ~HasNull(t)}
              IN  /\ Cardinality(DirectQueries(reference)) <= 1
                  /\ S # {} => \E j \in DirectQueries(reference) :
                                  QueriedKeys(outcome.log[j]) = S
                  /\ \A r \in DOMAIN db[call.cls] :
                        LET key == get_fk_as_tuple(db[call.cls][r], field.cols)
                            got == TopEntities[r].attrs[field.key]
                        IN  ~HasNull(key) =>
                               IF HasRow(reference, key)
                               THEN /\ got.kind = "entity"
                                    /\ got.cls = reference
                                    /\ pk(got) = key
                               ELSE got = Null

\* C6: in an EAGER get_all or get_one, a row whose foreign key has a null
\* component causes no query against the referenced table for that key, and
\* the field of the returned entity is null.
C6_NullForeignKeyNeverLookedUp ==
    (Reading /\ call.fetch_type = "EAGER") =>
        \A r \in DOMAIN TopRows : \A i \in DOMAIN ForeignKeys(call.cls) :
            LET field == ForeignKeys(call.cls)[i]
                key == get_fk_as_tuple(TopRows[r], field.cols)
            IN  HasNull(key) =>
                   /\ \A j \in DirectQueries(field.cols[1].reference) :
                         key \notin QueriedKeys(outcome.log[j])
                   /\ outcome.status = "ok" =>
                         TopEntities[r].attrs[field.key] = Null

\* C7: an EAGER get_all of a non-empty table of an entity with a one-to-many
\* field completes with one batched query on the child table over the
\* distinct parent keys, and every parent's field is the list of the
\* children whose inverse column equals the parent's key (empty when none).
C7_EagerOneToManyBatched ==
    (/\ call.op = "get_all"
     /\ call.fetch_type = "EAGER"
     /\ OneToManyFields(call.cls) # <<>>
     /\ db[call.cls] # <<>>) =>
        /\ outcome.status = "ok"
        /\ \A i \in DOMAIN OneToManyFields(call.cls) :
              LET field == OneToManyFields(call.cls)[i]
                  value == field.cols[1]
                  parents == {db[call.cls][r][value.db_field_name] :
                                 r \in DOMAIN db[call.cls]}
              IN  /\ \E j \in DirectQueries(value.reference) :
                        /\ WCol(value.referenced_column) \in Range(outcome.log[j].query)
                        /\ QueriedKeys(outcome.log[j]) = {<<v>> : v \in parents}
                  /\ \A r \in DOMAIN db[call.cls] :
                        LET got == TopEntities[r].attrs[field.key]
                            children == SelectSeq(db[value.reference],
                                LAMBDA row : row[value.referenced_column]
                                             = db[call.cls][r][value.db_field_name])
                        IN  /\ got.kind = "list"
                            /\ Len(got.items) = Len(children)
                            /\ \A k \in DOMAIN got.items :
                                  pk(got.items[k]) = RowKey(value.reference, children[k])

\* C8: a LAZY read runs the initial select only; every foreign-key field whose
\* raw key has no null is a Lazy Reference holding that key, and reading it
\* raises; the same rows read EAGER hold the target entity where one exists.
C8_LazyFetchLeavesReferences ==
    (Reading /\ call.fetch_type = "LAZY" /\ outcome.status = "ok") =>
        /\ Len(outcome.log) = 1
        /\ \A r \in DOMAIN TopRows : \A i \in DOMAIN ForeignKeys(call.cls) :
              LET field == ForeignKeys(call.cls)[i]
                  key == get_fk_as_tuple(TopRows[r], field.cols)
                  eager == get_all(call.cls, "EAGER")
                  position == CHOOSE n \in DOMAIN db[call.cls] :
                                  db[call.cls][n] = TopRows[r]
              IN  ~HasNull(key) =>
                     /\ TopEntities[r].attrs[field.key].kind = "lazy"
                     /\ get_db_value(TopEntities[r], field.key) = key
                     /\ GetAttr(TopEntities[r], field.key).status = "AttributeError"
                     /\ HasRow(field.cols[1].reference, key) =>
                           /\ eager.status = "ok"
                           /\ eager.value.items[position].attrs[field.key].kind
                              = "entity"

\* C9: EAGER resolution terminates on every finite database: no call is
\* entered again with the arguments of a call still in progress.
C9_EagerResolutionTerminates == outcome.status # "RecursionError"

\* C10: get_one takes a bare scalar as the one-element key; it returns the
\* entity with that key when the row exists, raises the not-found error
\* when no row exists and nullable is false, and returns None when no row
\* exists and nullable is true.
C10_GetOneFindsOrSignals ==
    call.op = "get_one" =>
        IF HasRow(call.cls, NormalizeKey(call.key))
        THEN /\ outcome.status = "ok"
             /\ outcome.value.kind = "entity"
             /\ pk(outcome.value) = NormalizeKey(call.key)
        ELSE IF call.nullable
        THEN outcome.status = "ok" /\ outcome.value = Null
        ELSE outcome.status = "ValueError"

(***************************************************************************)
(* Claims about writing, checked under SpecWrite.                          *)
(***************************************************************************)
\* an update has run and no other connection committed between its read
\* and its scope
UpdatedAlone == call.op = "update" /\ ~call.concurrent

\* the persisted row with the primary key of the entity
PersistedRow(cls, data) ==
    db[cls][CHOOSE r \in DOMAIN db[cls] : RowKey(cls, db[cls][r]) = pk(data)]

\* the value the j-th column of a field has for the entity: the field's own
\* value, the key a Lazy Reference holds, or the key component of a nested
\* entity
ColumnValue(data, field, j) ==
    LET value == data.attrs[field.key]
    IN  IF value = Null THEN Null
        ELSE IF value.kind = "lazy" THEN value.db_value
        ELSE IF value.kind = "entity"
        THEN value.attrs[PrimaryKeys(value.cls)[j].field_name]
        ELSE value

\* every field is a scalar, a single-column reference (lazy or resolved) or
\* a composite reference that is unset or resolved
PlainShape(data) ==
    \A i \in DOMAIN Fields(data.cls) :
        LET value == data.attrs[Fields(data.cls)[i].key]
        IN  /\ value # Null => value.kind \in {"int", "lazy", "entity"}
            /\ Fields(data.cls)[i].list => (value = Null \/ value.kind = "entity")

\* the columns the update may set: no primary-key and no auto-generated one
Settable(cls, col) ==
    /\ col.db_field_name \notin Range(SchemaPrimaryKey(cls))
    /\ ~col.auto_generated

\* the fields of the entity some settable column of which differs from the row
ChangedFields(cls, data) ==
    {i \in DOMAIN Fields(cls) :
        \E j \in DOMAIN Fields(cls)[i].cols :
            /\ Settable(cls, Fields(cls)[i].cols[j])
            /\ ColumnValue(data, Fields(cls)[i], j)
               # PersistedRow(cls, data)[Fields(cls)[i].cols[j].db_field_name]}

\* the UPDATE statements on a table among the statements of the call
UpdatesOn(table) ==
    SelectSeq(outcome.log, LAMBDA st : st.query[1] = WUpdate(table))

\* C11: an update of an entity identical to its persisted row (scalar,
\* single-column and composite references alike) issues no UPDATE on its
\* table; when exactly one settable field differs it executes one UPDATE
\* whose SET clause names exactly the columns of that field; no UPDATE ever
\* sets a primary-key or auto-generated column.
C11_UpdateSetsExactlyTheChange ==
    (/\ UpdatedAlone
     /\ OneToManyFields(call.cls) = <<>>
     /\ PlainShape(call.data)
     /\ HasRow(call.cls, pk(call.data))) =>
        /\ ChangedFields(call.cls, call.data) = {} => UpdatesOn(call.cls) = <<>>
        /\ \A i \in DOMAIN Fields(call.cls) :
              ChangedFields(call.cls, call.data) = {i} =>
                 /\ outcome.status = "ok"
                 /\ Len(UpdatesOn(call.cls)) = 1
                 /\ UpdatesOn(call.cls)[1].status = "ok"
                 /\ Range(UpdatesOn(call.cls)[1].query[2].cols)
                    = {Fields(call.cls)[i].cols[j].db_field_name :
                          j \in DOMAIN Fields(call.cls)[i].cols}
        /\ \A k \in DOMAIN UpdatesOn(call.cls) :
              \A c \in Range(UpdatesOn(call.cls)[k].query[2].cols) :
                 Settable(call.cls, DbColumn(call.cls, c))

\* the row an entity without references stands for
RowOf(data) ==
    [c \in Range(SchemaColumns(data.cls)) |-> data.attrs[DbColumn(data.cls, c).field_name]]

\* the entity holds a collection in every one-to-many field
HoldsCollections(data) ==
    /\ OneToManyFields(data.cls) # <<>>
    /\ \A i \in DOMAIN OneToManyFields(data.cls) :
          /\ data.attrs[OneToManyFields(data.cls)[i].key] # Null
          /\ data.attrs[OneToManyFields(data.cls)[i].key].kind = "list"

\* C12: an update of a persisted entity that holds a collection in every
\* one-to-many field returns; afterwards the child rows whose inverse column
\* holds the entity's key are exactly the rows of the children of the
\* collection, and the backend saw one commit (and no rollback) for the call.
C12_UpdateSyncsChildren ==
    (/\ UpdatedAlone
     /\ HoldsCollections(call.data)
     /\ HasRow(call.cls, pk(call.data))) =>
        /\ outcome.status = "ok"
        /\ outcome.backend = <<"commit", "close">>
        /\ \A i \in DOMAIN OneToManyFields(call.cls) :
              LET col == OneToManyFields(call.cls)[i].cols[1]
                  items == call.data.attrs[OneToManyFields(call.cls)[i].key].items
              IN  {row \in Range(db[col.reference]) :
                      <<row[col.referenced_column]>> = pk(call.data)}
                  = {RowOf(items[k]) : k \in DOMAIN items}

\* C13: an update of a persisted entity whose value of a one-to-many column
\* differs from the persisted one (the update would set that column) fails
\* with the usage error; the backend sees no commit, and a rollback when a
\* statement was handed to the connection.
C13_ScalarUpdateOfOneToManyRefused ==
    (/\ UpdatedAlone
     /\ HasRow(call.cls, pk(call.data))
     /\ \E i \in ChangedFields(call.cls, call.data) :
           IsOneToMany(Fields(call.cls)[i].cols[1])) =>
        /\ outcome.status = "ValueError"
        /\ \A k \in DOMAIN outcome.backend : outcome.backend[k] # "commit"
        /\ outcome.log # <<>> => outcome.backend = <<"rollback", "close">>

\* the columns insert is to name: the schema columns, in schema order,
\* without the auto-generated columns whose value is unset
ColumnsToInsert(data) ==
    SelectSeq(SchemaColumns(data.cls),
              LAMBDA c : ~(/\ DbColumn(data.cls, c).auto_generated
                           /\ data.attrs[DbColumn(data.cls, c).field_name] = Null))

\* C14: insert executes, inside a scope that commits, one INSERT naming
\* exactly the schema columns without the unset auto-generated ones, in
\* schema order (also for a column named differently from its attribute),
\* with one placeholder and one bound parameter per column: the values
\* get_values_for_columns gives for these columns.
C14_InsertNamesSetColumns ==
    call.op = "insert" =>
        /\ outcome.status = "ok"
        /\ outcome.backend = <<"commit", "close">>
        /\ Len(outcome.log) = 1
        /\ outcome.log[1].status = "ok"
        /\ outcome.log[1].query
           = <<WInsert(call.cls, ColumnsToInsert(call.data)),
               WValues(Len(ColumnsToInsert(call.data)))>>
        /\ Len(outcome.log[1].params) = Len(ColumnsToInsert(call.data))
        /\ outcome.log[1].params
           = get_values_for_columns(call.data, ColumnsToInsert(call.data), {}).values

\* C15: delete with an entity alone executes one DELETE bound to the
\* entity's primary key; delete with a key, passed by name or in the place
\* of the entity, with or without an entity, and also when the key is 0,
\* executes one DELETE bound to exactly that key; delete with neither fails
\* with the assertion error and hands no statement to the connection.
C15_DeleteByEntityOrKey ==
    call.op = "delete" =>
        IF call.data = Null /\ call.key = Null
        THEN outcome.status = "AssertionError" /\ outcome.log = <<>>
        ELSE /\ outcome.status = "ok"
             /\ Len(outcome.log) = 1
             /\ outcome.log[1].status = "ok"
             /\ outcome.log[1].query[1] = WDelete(call.cls)
             /\ outcome.log[1].params
                = IF call.key # Null THEN NormalizeKey(call.key)
                  ELSE IF call.data.kind = "entity" THEN pk(call.data)
                  ELSE NormalizeKey(call.data)


(***************************************************************************)
(* Claims about the query builder, checked under SpecBuilder.              *)
(***************************************************************************)
\* the builder as call i left it
After(i) ==
    IF i = Len(builder.calls) THEN builder.qb ELSE builder.calls[i + 1].before

IsBuilderArgument(c) == "kind" \notin DOMAIN c.arguments.query

\* what an append call was given: its fragments and its parameters
AppendedFragments(c) ==
    IF IsBuilderArgument(c) THEN c.arguments.query.query
    ELSE <<c.arguments.query.fragment>>

AppendedParams(c) ==
    IF IsBuilderArgument(c) THEN c.arguments.query.params
    ELSE IF c.arguments.params = Null THEN <<>>
    ELSE IF c.arguments.params.kind = "tuple" THEN c.arguments.params.items
    ELSE <<c.arguments.params>>

\* C16: after any sequence of append calls, with strings or with builders,
\* the fragment list is the concatenation in call order of the appended
\* fragments and the parameter list the concatenation of the appended
\* parameters; every append extends both lists at the end, raises nothing
\* and returns the builder.
C16_AppendsConcatenateInOrder ==
    /\ (\A i \in DOMAIN builder.calls : builder.calls[i].op = "append")
          => /\ builder.qb.query =
                   Concat([i \in DOMAIN builder.calls |->
                              AppendedFragments(builder.calls[i])])
             /\ builder.qb.params =
                   Concat([i \in DOMAIN builder.calls |->
                              AppendedParams(builder.calls[i])])
    /\ \A i \in DOMAIN builder.calls :
          builder.calls[i].op = "append"
             => /\ builder.calls[i].status = "ok"
                /\ builder.calls[i].returned = After(i)
                /\ After(i).query =
                      builder.calls[i].before.query \o AppendedFragments(builder.calls[i])
                /\ After(i).params =
                      builder.calls[i].before.params \o AppendedParams(builder.calls[i])

\* three appends: a string with a parameter list, a builder of two fragments
\* and the builder itself, after which parameters repeat
C16_Witness ==
    /\ Len(builder.calls) = 3
    /\ \A i \in 1..3 : builder.calls[i].op = "append"
    /\ ~IsBuilderArgument(builder.calls[1])
    /\ builder.calls[1].arguments.params = TupleOf(<<IntV(1), IntV(2)>>)
    /\ IsBuilderArgument(builder.calls[2])
    /\ Len(builder.calls[2].arguments.query.query) = 2
    /\ builder.calls[3].arguments.query = builder.calls[3].before
    /\ Len(builder.qb.params) = 8

\* `"WHERE" in fragment` for some fragment appended so far
HasWhereFragment(qb) == \E i \in DOMAIN qb.query : HasWord(qb.query[i], "WHERE")

\* C17: appendIn with an empty value list fails with a ValueError, and so does
\* appendIn with a non-empty list on a builder none of whose fragments holds
\* WHERE; in both cases fragments and parameters stay as they were.
C17_AppendInUsageErrors ==
    \A i \in DOMAIN builder.calls :
       (/\ builder.calls[i].op = "appendIn"
        /\ \/ builder.calls[i].arguments.values = <<>>
           \/ ~HasWhereFragment(builder.calls[i].before))
          => /\ builder.calls[i].status = "ValueError"
             /\ builder.calls[i].returned = Null
             /\ After(i).query = builder.calls[i].before.query
             /\ After(i).params = builder.calls[i].before.params

\* an empty list refused after a WHERE fragment, and values refused on a
\* builder that has fragments and parameters but no WHERE
C17_Witness ==
    /\ Len(builder.calls) = 3
    /\ builder.calls[2].op = "appendIn"
    /\ builder.calls[2].arguments.values # <<>>
    /\ builder.calls[2].before.params # <<>>
    /\ ~HasWhereFragment(builder.calls[2].before)
    /\ builder.calls[2].status = "ValueError"
    /\ builder.calls[3].op = "appendIn"
    /\ builder.calls[3].arguments.values = <<>>
    /\ builder.calls[3].status = "ValueError"
    /\ builder.qb = builder.calls[2].before

\* the position of component j of tuple i in the row-major flattening
RowMajor(values, i, j) ==
    Sum([k \in 1..(i - 1) |-> Len(values[k].items)]) + j

\* C18: a successful appendIn(values) appends one fragment: for scalars
\* IN (?, ..., ?) with one placeholder per value and the values as parameters
\* in order, for tuples IN ((?,..), ...) with one group per tuple, one
\* placeholder per component and the components as parameters in row-major
\* order; placeholders and added parameters are equal in number.
C18_AppendInRendersValues ==
    \A i \in DOMAIN builder.calls :
       (builder.calls[i].op = "appendIn" /\ builder.calls[i].status = "ok")
          => LET values == builder.calls[i].arguments.values
                 before == builder.calls[i].before
                 added == SubSeq(After(i).params, Len(before.params) + 1,
                                 Len(After(i).params))
                 fragment == After(i).query[Len(After(i).query)]
             IN  /\ Len(After(i).query) = Len(before.query) + 1
                 /\ SubSeq(After(i).query, 1, Len(before.query)) = before.query
                 /\ SubSeq(After(i).params, 1, Len(before.params)) = before.params
                 /\ Len(fragment) = 1
                 /\ fragment[1].w = "IN"
                 /\ Len(fragment[1].shape) = Len(values)
                 /\ WordPlaceholders(fragment[1]) = Len(added)
                 /\ IF values[1].kind = "tuple"
                    THEN /\ fragment[1].groups
                         /\ \A k \in DOMAIN values :
                               /\ fragment[1].shape[k] = Len(values[k].items)
                               /\ \A j \in DOMAIN values[k].items :
                                     added[RowMajor(values, k, j)] = values[k].items[j]
                    ELSE /\ ~fragment[1].groups
                         /\ added = values

\* two tuples whose row-major and component-wise flattenings differ, bound
\* behind a parameter that was already there
C18_Witness ==
    \E i \in DOMAIN builder.calls :
       /\ builder.calls[i].op = "appendIn"
       /\ builder.calls[i].status = "ok"
       /\ builder.calls[i].before.params # <<>>
       /\ builder.calls[i].arguments.values =
             <<TupleOf(<<IntV(1), IntV(3)>>), TupleOf(<<IntV(2), IntV(4)>>)>>

(***************************************************************************)
(* Claims about entities, checked under SpecData.                          *)
(***************************************************************************)
\* the field a database column belongs to, and the column's place in it
FieldIndex(cls, column) ==
    CHOOSE i \in DOMAIN Fields(cls) :
        \E j \in DOMAIN Fields(cls)[i].cols :
            Fields(cls)[i].cols[j].db_field_name = column

PlaceInField(cls, column) ==
    CHOOSE j \in DOMAIN Fields(cls)[FieldIndex(cls, column)].cols :
        Fields(cls)[FieldIndex(cls, column)].cols[j].db_field_name = column

\* the row an entity stands for: the persisted value of every column
PersistedValues(data) ==
    [c \in Range(SchemaColumns(data.cls)) |->
        ColumnValue(data, Fields(data.cls)[FieldIndex(data.cls, c)],
                    PlaceInField(data.cls, c))]

\* C19: an entity never equals a value of another type; two entities of one
\* type are equal exactly when every column, primary key included, has the
\* same persisted value, whether a reference is held as a Lazy Reference or
\* as the resolved entity; an entity read lazily from a row equals an entity
\* with resolved references exactly when that entity stands for the same row,
\* for single-column and composite foreign keys alike.
C19_EqualByPersistedValues ==
    call.op = "eq" =>
        /\ ~(call.other.kind = "entity" /\ call.other.cls = call.self.cls) => ~outcome.equal
        /\ (/\ (call.other.kind = "entity" /\ call.other.cls = call.self.cls)
            /\ PlainShape(call.self)
            /\ PlainShape(call.other))
              => (outcome.equal
                    <=> PersistedValues(call.self) = PersistedValues(call.other))
        /\ (/\ call.row # Null
            /\ \A c \in DOMAIN call.row : call.row[c] \in RawValues
            /\ PlainShape(call.self))
              => (outcome.equal <=> PersistedValues(call.self) = call.row)

\* the places of the request at which a field is asked for the first time
FirstRequests(cls, columns) ==
    SelectSeq([k \in DOMAIN columns |-> k],
              LAMBDA k : \A e \in 1..(k - 1) :
                            FieldIndex(cls, columns[e]) # FieldIndex(cls, columns[k]))

\* the persisted value(s) of a field: one per column of the field
FieldValues(data, i) ==
    [j \in DOMAIN Fields(data.cls)[i].cols |->
        ColumnValue(data, Fields(data.cls)[i], j)]

RawValue(row, field) ==
    IF ~field.list THEN row[field.cols[1].db_field_name]
    ELSE IF \A j \in DOMAIN field.cols : row[field.cols[j].db_field_name] = Null
    THEN Null
    ELSE TupleOf([j \in DOMAIN field.cols |-> row[field.cols[j].db_field_name]])

\* C21: from_db_dict gives every attribute the raw value of its column(s):
\* unchanged for a field without reference; for a reference field null stays
\* null, an entity of the target type stays as it is, and any other value
\* becomes a Lazy Reference holding the raw value and the target.
C21_FromDbDictMapsColumns ==
    (call.op = "eq" /\ call.row # Null) =>
        \A i \in DOMAIN Fields(call.other.cls) :
            LET field == Fields(call.other.cls)[i]
                raw == RawValue(call.row, field)
                attr == call.other.attrs[field.key]
            IN  IF field.cols[1].reference = NoRef \/ raw = Null THEN attr = raw
                ELSE IF raw.kind = "entity" THEN attr = raw
                ELSE attr = LazyField(raw, field.cols[1].reference)

\* C22: serialising an entity with as_dict and constructing an entity of the
\* same type from the dictionary, nested dictionaries included, raises
\* nothing and yields an entity equal to the first.
C22_RoundTripGivesEqualEntity ==
    call.op = "round_trip" => (outcome.status = "ok" /\ outcome.equal)

\* the place of a descriptor in meta.primary_keys
PlaceInKey(cls, col) ==
    CHOOSE n \in DOMAIN PrimaryKeys(cls) : PrimaryKeys(cls)[n] = col

\* C23: for the class of every entity in use, every descriptor of fields,
\* single or inside a list, is in db_columns under its database column name,
\* and primary_keys holds exactly the descriptors declared with
\* primary_key = true, each once, in the order of their declaration.
C23_MetadataCoversDeclaration ==
    \A cls \in Classes : (call.op = "pk" /\ call.entity.cls = cls) =>
        /\ \A i \in DOMAIN Fields(cls) : \A j \in DOMAIN Fields(cls)[i].cols :
              /\ Fields(cls)[i].cols[j].db_field_name \in DbColumnNames(cls)
              /\ DbColumn(cls, Fields(cls)[i].cols[j].db_field_name)
                 = Fields(cls)[i].cols[j]
        /\ \A n \in DOMAIN PrimaryKeys(cls) :
              /\ PrimaryKeys(cls)[n].primary_key
              /\ \A m \in DOMAIN PrimaryKeys(cls) :
                    PrimaryKeys(cls)[m] = PrimaryKeys(cls)[n] => m = n
        /\ \A i \in DOMAIN Fields(cls) : \A j \in DOMAIN Fields(cls)[i].cols :
              Fields(cls)[i].cols[j].primary_key =>
                 /\ Fields(cls)[i].cols[j] \in Range(PrimaryKeys(cls))
                 /\ \A k \in DOMAIN Fields(cls) : \A l \in DOMAIN Fields(cls)[k].cols :
                       (/\ Fields(cls)[k].cols[l].primary_key
                        /\ (k < i \/ (k = i /\ l < j)))
                          => /\ Fields(cls)[k].cols[l] \in Range(PrimaryKeys(cls))
                             /\ PlaceInKey(cls, Fields(cls)[k].cols[l])
                                < PlaceInKey(cls, Fields(cls)[i].cols[j])

\* an entity of a class whose primary key is declared inside a list is in use
C23_Witness ==
    /\ call.op = "pk"
    /\ call.entity.cls = "Detail"
    /\ Len(PrimaryKeys("Detail")) = 2
    /\ outcome.status = "ok"

\* the fields of a class that hold a primary-key column, in declaration order
KeyFields(cls) ==
    SelectSeq([i \in DOMAIN Fields(cls) |-> i],
              LAMBDA i : \E j \in DOMAIN Fields(cls)[i].cols :
                            Fields(cls)[i].cols[j].primary_key)

\* C24: the primary key of an entity is the flat tuple of its key fields in
\* declaration order: a scalar gives itself, a nested entity its own
\* flattened key, once; a reference field that is no key gives nothing.
C24_PkIsFlatKey ==
    (call.op = "pk" /\ PlainShape(call.entity)) =>
        outcome.value =
            Concat([n \in DOMAIN KeyFields(call.entity.cls) |->
                       FieldValues(call.entity, KeyFields(call.entity.cls)[n])])

\* C25: generate_where_with_pk(schema, pk) yields one WHERE fragment holding one
\* "col = ?" conjunct per primary-key column, in the order of the schema and
\* joined by AND, each column prefixed by the alias exactly when the schema
\* has a non-empty alias, and its parameters are the given key values in order
C25_WhereClauseOfPrimaryKey ==
    call.op = "generate_where_with_pk" =>
        LET columns == call.schema.primaryKey
            n == Len(columns)
        IN  /\ outcome.error = "ok"
            /\ Len(outcome.query) = 1
            /\ Len(outcome.query[1]) = (IF n = 0 THEN 1 ELSE 2 * n)
            /\ outcome.query[1][1] = WWhere
            /\ \A i \in 1..n :
                  /\ outcome.query[1][2 * i].w = "= ?"
                  /\ outcome.query[1][2 * i].col = columns[i]
                  /\ (outcome.query[1][2 * i].alias # "") = (call.schema.alias # "")
                  /\ outcome.query[1][2 * i].alias = call.schema.alias
                  /\ i < n => outcome.query[1][2 * i + 1] = WAnd
            /\ outcome.params = call.pk

C25_Witness ==
    /\ call.op = "generate_where_with_pk"
    /\ call.schema.alias = "t1"
    /\ Len(call.schema.primaryKey) = 2
    /\ call.pk = <<IntV(2), IntV(1)>>
    /\ outcome.query = <<<<WWhere, WEq("t1", call.schema.primaryKey[1]), WAnd,
                           WEq("t1", call.schema.primaryKey[2])>>>>

\* the number of `?` of the text of a statement
Placeholders(text) == Sum([i \in DOMAIN text |-> WordPlaceholders(text[i])])

\* C27: every statement built by insert, update (parent UPDATE, child UPDATE
\* batch, orphan DELETE) and delete has exactly as many `?` placeholders as
\* bound parameters (in every parameter row of a batch), whatever the shape
\* of the entity and the key argument
C27_PlaceholdersMatchParameters ==
    call.op \in {"insert", "update", "delete"} =>
        \A k \in DOMAIN outcome.log :
            IF outcome.log[k].via = "executemany"
            THEN \A r \in DOMAIN outcome.log[k].params :
                    Len(outcome.log[k].params[r]) = Placeholders(outcome.log[k].query)
            ELSE Len(outcome.log[k].params) = Placeholders(outcome.log[k].query)

\* C28: a builder counts as having a WHERE clause as soon as one of its
\* fragments holds WHERE, however the fragment got there (appended as a string
\* or merged from another builder): appendIn with a non-empty list then
\* succeeds and appends its IN list
C28_AppendInAfterAnyWhere ==
    \A i \in DOMAIN builder.calls :
       (/\ builder.calls[i].op = "appendIn"
        /\ builder.calls[i].arguments.values # <<>>
        /\ HasWhereFragment(builder.calls[i].before))
          => /\ builder.calls[i].status = "ok"
             /\ Len(After(i).query) = Len(builder.calls[i].before.query) + 1

KeyedRow ==
    CHOOSE r \in DOMAIN db[call.cls] :
        RowKey(call.cls, db[call.cls][r]) = NormalizeKey(call.key)

\* C30: the two EAGER resolution paths agree: for every key of an existing
\* row, get_one(key) returns an entity equal, field by field (resolved
\* foreign keys and one-to-many lists included), to the element of get_all()
\* made from that row
C30_EagerPathsAgree ==
    (/\ call.op = "get_one"
     /\ call.fetch_type = "EAGER"
     /\ HasRow(call.cls, NormalizeKey(call.key))) =>
        \A all \in {get_all(call.cls, "EAGER")} :
            /\ outcome.status = "ok"
            /\ all.status = "ok"
            /\ outcome.value = all.value.items[KeyedRow]

============================================================================
